---- MODULE Spec2Model ----
(***************************************************************************)
(* Family-Tree-Builder: the cycle guard (lib/cycles.ts), the pyramid       *)
(* layout (lib/tree-layout.ts) and the relationship resolver               *)
(* (lib/relationships.ts), modelled on bounded people lists.               *)
(*                                                                         *)
(* Person ids are the integers 1..MaxPeople; a people list holds the       *)
(* persons 1..n in list order, so a reference to an id above n refers to   *)
(* no person of the list.  String sorts of ids are integer sorts here.     *)
(***************************************************************************)
EXTENDS Integers, Sequences, FiniteSets, TLC

VARIABLES people,       \* the Person[] snapshot handed to the core functions
          call,         \* the last call made: [op, a, b, flag]
          cycleRet,     \* result of the last wouldCreateCycle call
          relRet,       \* result of the last findRelationship call
          layoutRet,    \* result of the last computeLayout call
          prevLayout,   \* result of the computeLayout call before the last
          entryPeople,  \* the people list as it was on entry of the last call
          ncalls,       \* number of computeLayout calls made so far
          pc,           \* position of the calculateGenerations loop
          queue,        \* calculateGenerations: the BFS queue
          generations,  \* calculateGenerations: the generations map
          dialogMode,   \* editor page: the dialog that is open, [type, spouseId]
          dialogPerson, \* editor page: the person the dialog was opened with
          form,         \* PersonForm: the form fields as loaded from dialogPerson
          nextId,       \* the id crypto.randomUUID() hands out next
          selectedPerson1, \* FindLinkView: id of the first selected person, 0 for null
          selectedPerson2, \* FindLinkView: id of the second selected person, 0 for null
          relationship,    \* FindLinkView: the relationship result, or NullRelationship
          chart            \* buildLayout: generations map, pass count and changed flag

editorVars == <<dialogMode, dialogPerson, form, nextId>>

linkVars == <<selectedPerson1, selectedPerson2, relationship, chart>>

vars == <<people, call, cycleRet, relRet, layoutRet, prevLayout, entryPeople,
          ncalls, pc, queue, generations, editorVars, linkVars>>

-----------------------------------------------------------------------------
(* Bounds of the model                                                     *)

MaxPeople == 3
MaxEdges == 3
MaxRelEdges == 2
MaxCalls == 2
MaxManual == 1
MaxGen == 6

(* Layout constants of tree-layout.ts                                      *)

HORIZONTAL_SPACING == 180
VERTICAL_SPACING == 180
SPOUSE_SPACING == 100
CANVAS_PADDING == 100
UNIT_SPACING == 60
MIN_WIDTH == 800
MIN_HEIGHT == 600

-----------------------------------------------------------------------------
(* Generic helpers: arrays are sequences                                   *)

Ids == 1..MaxPeople

Range(s) == {s[i] : i \in 1..Len(s)}

Includes(s, x) == \E i \in 1..Len(s) : s[i] = x

MinOf(S) == CHOOSE x \in S : \A y \in S : x <= y

MaxOf(S) == CHOOSE x \in S : \A y \in S : x >= y

RECURSIVE SortedSeq(_)
SortedSeq(S) ==
  IF S = {} THEN <<>>
  ELSE LET m == MinOf(S) IN <<m>> \o SortedSeq(S \ {m})

RECURSIVE SubsetsUpTo(_, _)
SubsetsUpTo(S, k) ==
  IF k = 0 THEN {{}}
  ELSE LET prev == SubsetsUpTo(S, k - 1)
       IN  prev \cup {T \cup {x} : T \in prev, x \in S}

RECURSIVE Flatten(_)
Flatten(ss) ==
  IF ss = <<>> THEN <<>> ELSE Head(ss) \o Flatten(Tail(ss))

FlatMap(s, F(_)) == Flatten([i \in 1..Len(s) |-> F(s[i])])

-----------------------------------------------------------------------------
(* The Person shape (lib/types.ts), reduced to the fields the core reads   *)

Genders == <<"male", "female", "other", "">>

NullPosition == [has |-> FALSE, x |-> 0, y |-> 0]

Position(x, y) == [has |-> TRUE, x |-> x, y |-> y]

Person(id, gender, givenName, parentIds, childIds, spouseIds, position) ==
  [id |-> id, gender |-> gender, givenName |-> givenName,
   parentIds |-> parentIds, childIds |-> childIds, spouseIds |-> spouseIds,
   position |-> position]

PersonIds(ps) == {ps[i].id : i \in 1..Len(ps)}

\* people.find(p => p.id === id) / peopleMap.get(id): index in the list, 0 when absent
IndexOf(ps, id) ==
  IF \E i \in 1..Len(ps) : ps[i].id = id
  THEN CHOOSE i \in 1..Len(ps) : ps[i].id = id /\ \A j \in 1..(i - 1) : ps[j].id # id
  ELSE 0

Has(ps, id) == IndexOf(ps, id) # 0

Get(ps, id) == ps[IndexOf(ps, id)]

-----------------------------------------------------------------------------
(* Input lists.  A list is drawn as a set of typed references              *)
(* <<kind, person, target>>; the arrays hold the targets in ascending      *)
(* order.  With sym, every reference is entered on both sides, as the      *)
(* editor does.                                                            *)

Pool(kinds, n) == kinds \X (1..n) \X Ids

Targets(E, kind, i) == {e[3] : e \in {f \in E : f[1] = kind /\ f[2] = i}}

Sources(E, kind, i) == {e[2] : e \in {f \in E : f[1] = kind /\ f[3] = i}}

Literal(E, kind, i) == SortedSeq(Targets(E, kind, i))

GenderOf(i, rot) == Genders[((i + rot) % 4) + 1]

NoCall == [op |-> "none", a |-> 0, b |-> 0, flag |-> FALSE]

NoLayout == [nodes |-> <<>>, width |-> 0, height |-> 0]

NoRel == [english |-> "", path |-> <<>>]

NoDialog == [type |-> "none", spouseId |-> 0]

NoPerson == [id |-> 0]

NoForm == [givenName |-> 0, parent1Id |-> 0, parent2Id |-> 0, marriages |-> <<>>]

\* the editor page is not part of the specifications of the core functions
EditorUnused ==
  /\ dialogMode = NoDialog
  /\ dialogPerson = NoPerson
  /\ form = NoForm
  /\ nextId = 1

NullRelationship == [english |-> "null", path |-> <<>>]

NoChart == [generations |-> [id \in {} |-> 0], iterations |-> 0, changed |-> FALSE]

\* the relationship finder is not part of the other specifications
LinkUnused ==
  /\ selectedPerson1 = 0
  /\ selectedPerson2 = 0
  /\ relationship = NullRelationship
  /\ chart = NoChart

NoPrev == [call |-> NoCall, ret |-> NoLayout]

EmptyMap == [id \in {} |-> 0]

MapSet(m, id, v) == [k \in DOMAIN m \cup {id} |-> IF k = id THEN v ELSE m[k]]

-----------------------------------------------------------------------------
(* lib/cycles.ts                                                           *)

\* childrenMap of wouldCreateCycle: children of id in list order, one entry
\* per parentIds entry; <<>> for ids that are no key of the map
ChildrenOf(ps, id) ==
  IF ~Has(ps, id) THEN <<>>
  ELSE LET Hits(p) == LET Hit(pid) == IF pid = id THEN <<p.id>> ELSE <<>>
                      IN  FlatMap(p.parentIds, Hit)
       IN  FlatMap(ps, Hits)

\* first loop: BFS over the descendants of childId.  The `return true` of the
\* source sits in a forEach callback and leaves the loop running, so the
\* loop only computes the visited set.
RECURSIVE DescendantLoop(_, _, _)
DescendantLoop(ps, q, visited) ==
  IF q = <<>> THEN visited
  ELSE LET currentId == Head(q)
       IN  IF currentId \in visited THEN DescendantLoop(ps, Tail(q), visited)
           ELSE DescendantLoop(ps, Tail(q) \o ChildrenOf(ps, currentId),
                               visited \cup {currentId})

\* second loop: BFS upwards from potentialParentId through parentIds
RECURSIVE AncestorLoop(_, _, _, _)
AncestorLoop(ps, childId, q, ancestorVisited) ==
  IF q = <<>> THEN FALSE
  ELSE LET currentId == Head(q)
       IN  IF currentId \in ancestorVisited
           THEN AncestorLoop(ps, childId, Tail(q), ancestorVisited)
           ELSE IF currentId = childId THEN TRUE
           ELSE AncestorLoop(ps, childId,
                  Tail(q) \o (IF Has(ps, currentId)
                              THEN Get(ps, currentId).parentIds ELSE <<>>),
                  ancestorVisited \cup {currentId})

\* the guard as it would be with the first loop only
wouldCreateCycleFirstLoopOnly(ps, childId, potentialParentId) ==
  IF childId = potentialParentId THEN TRUE
  ELSE LET visited == DescendantLoop(ps, <<childId>>, {})
       IN  visited = {} /\ FALSE

\* the guard as it would be if a parent id that names no person were refused
wouldCreateCycleUnknownRefused(ps, childId, potentialParentId) ==
  IF childId = potentialParentId THEN TRUE
  ELSE LET visited == DescendantLoop(ps, <<childId>>, {})
       IN  /\ visited # {}
           /\ \/ ~Has(ps, potentialParentId)
              \/ AncestorLoop(ps, childId, <<potentialParentId>>, {})

wouldCreateCycle(ps, childId, potentialParentId) ==
  IF childId = potentialParentId THEN TRUE
  ELSE LET visited == DescendantLoop(ps, <<childId>>, {})
       IN  /\ visited # {}
           /\ AncestorLoop(ps, childId, <<potentialParentId>>, {})

-----------------------------------------------------------------------------
(* Specification of the cycle guard: any list of persons with parentIds,   *)
(* then calls of wouldCreateCycle on it.                                   *)

CyclePeople(n, E) ==
  [i \in 1..n |-> Person(i, "", 1, Literal(E, "parent", i), <<>>, <<>>, NullPosition)]

InitCycle ==
  /\ \E n \in 1..MaxPeople :
       \E E \in SubsetsUpTo(Pool({"parent"}, n), MaxEdges) :
         people = CyclePeople(n, E)
  /\ call = NoCall
  /\ cycleRet = FALSE
  /\ relRet = NoRel
  /\ layoutRet = NoLayout
  /\ prevLayout = NoPrev
  /\ entryPeople = <<>>
  /\ ncalls = 0
  /\ pc = "idle"
  /\ queue = <<>>
  /\ generations = EmptyMap
  /\ EditorUnused
  /\ LinkUnused

CallWouldCreateCycle(childId, potentialParentId) ==
  /\ call' = [op |-> "wouldCreateCycle", a |-> childId, b |-> potentialParentId,
              flag |-> FALSE]
  /\ cycleRet' = wouldCreateCycle(people, childId, potentialParentId)
  /\ UNCHANGED <<people, relRet, layoutRet, prevLayout, entryPeople, ncalls,
                 pc, queue, generations, editorVars, linkVars>>

NextCycle == \E childId \in Ids, potentialParentId \in Ids :
               CallWouldCreateCycle(childId, potentialParentId)

SpecCycle == InitCycle /\ [][NextCycle]_vars

\* ancestors of id: the ids reached by one or more parentIds steps, each step
\* taken from a person of the list
RECURSIVE AncestorClosure(_, _)
AncestorClosure(ps, S) ==
  LET step == S \cup UNION {Range(Get(ps, s).parentIds) : s \in {t \in S : Has(ps, t)}}
  IN  IF step = S THEN S ELSE AncestorClosure(ps, step)

AncestorsOf(ps, id) ==
  IF Has(ps, id) THEN AncestorClosure(ps, Range(Get(ps, id).parentIds)) ELSE {}

\* C1: whenever a is a descendant of b, or a = b, wouldCreateCycle(people, b, a)
\* is true: a descendant is never accepted as a parent of its ancestor.
CycleGuardSound ==
  call.op = "wouldCreateCycle" =>
    ((call.a = call.b \/ call.a \in AncestorsOf(people, call.b)) => cycleRet = TRUE)

\* a grandchild was offered as parent of its grandparent, and was refused
CycleGuardSoundWitness ==
  /\ call.op = "wouldCreateCycle"
  /\ call.a # call.b
  /\ Has(people, call.b)
  /\ call.a \notin Range(Get(people, call.b).parentIds)
  /\ call.a \in AncestorsOf(people, call.b)
  /\ cycleRet = TRUE

\* C12: wouldCreateCycle(people, child, parent) is false whenever child and
\* parent differ and child is not reached from parent by following the
\* parentIds of persons of the list; ids that name no person are not expanded.
CycleGuardPrecise ==
  call.op = "wouldCreateCycle" =>
    ((call.a # call.b /\ call.a \notin AncestorsOf(people, call.b))
       => cycleRet = FALSE)

\* the candidate parent has a parent that names no person, the child is a
\* person of the list with parents of its own, and the guard accepted
CycleGuardPreciseWitness ==
  /\ call.op = "wouldCreateCycle"
  /\ call.a # call.b
  /\ Has(people, call.a) /\ Has(people, call.b)
  /\ Get(people, call.a).parentIds # <<>>
  /\ \E d \in AncestorsOf(people, call.b) : ~Has(people, d)
  /\ call.a \notin AncestorsOf(people, call.b)
  /\ cycleRet = FALSE

-----------------------------------------------------------------------------
(* lib/relationships.ts                                                    *)

\* findPath returns null when no path exists; every path has an element
NullPath == <<>>

\* depth-first search over parentIds, then childIds, then spouseIds; every
\* recursive call receives its own copy of the visited set
RECURSIVE findPath(_, _, _, _, _)
RECURSIVE findPathFirst(_, _, _, _, _)
\* the search as it would be without the loop over spouseIds
findPathNoSpouses(ps, fromId, toId, visited, path) ==
  IF fromId = toId THEN Append(path, fromId)
  ELSE IF fromId \in visited THEN NullPath
  ELSE IF ~Has(ps, fromId) THEN NullPath
  ELSE LET current == Get(ps, fromId)
       IN  findPathFirst(ps, current.parentIds \o current.childIds,
                         toId, visited \cup {fromId}, Append(path, fromId))

\* the search as it would be with the loop over childIds before that over parentIds
findPathChildrenFirst(ps, fromId, toId, visited, path) ==
  IF fromId = toId THEN Append(path, fromId)
  ELSE IF fromId \in visited THEN NullPath
  ELSE IF ~Has(ps, fromId) THEN NullPath
  ELSE LET current == Get(ps, fromId)
       IN  findPathFirst(ps, current.childIds \o current.parentIds \o current.spouseIds,
                         toId, visited \cup {fromId}, Append(path, fromId))

findPath(ps, fromId, toId, visited, path) ==
  IF fromId = toId THEN Append(path, fromId)
  ELSE IF fromId \in visited THEN NullPath
  ELSE IF ~Has(ps, fromId) THEN NullPath
  ELSE LET current == Get(ps, fromId)
       IN  findPathFirst(ps, current.parentIds \o current.childIds \o current.spouseIds,
                         toId, visited \cup {fromId}, Append(path, fromId))

\* the three for-loops of findPath: the first non-null result of the branches
findPathFirst(ps, nextIds, toId, visited, currentPath) ==
  IF nextIds = <<>> THEN NullPath
  ELSE LET result == findPath(ps, Head(nextIds), toId, visited, currentPath)
       IN  IF result # NullPath THEN result
           ELSE findPathFirst(ps, Tail(nextIds), toId, visited, currentPath)

RECURSIVE getGenerationDiff(_, _, _)
getGenerationDiff(ps, path, i) ==
  IF i >= Len(path) THEN 0
  ELSE LET rest == getGenerationDiff(ps, path, i + 1)
       IN  IF ~Has(ps, path[i]) \/ ~Has(ps, path[i + 1]) THEN rest
           ELSE IF Includes(Get(ps, path[i]).parentIds, path[i + 1]) THEN rest - 1
           ELSE IF Includes(Get(ps, path[i]).childIds, path[i + 1]) THEN rest + 1
           ELSE rest

goesThoughSpouse(ps, path) ==
  \E i \in 1..(Len(path) - 1) :
    /\ Has(ps, path[i]) /\ Has(ps, path[i + 1])
    /\ Includes(Get(ps, path[i]).spouseIds, path[i + 1])

\* the male / female / neutral variant of a label
ByGender(gender, male, female, neutral) ==
  IF gender = "male" THEN male ELSE IF gender = "female" THEN female ELSE neutral

\* the first non-empty label of a sequence of labels ("" is no match)
FirstLabel(labels) ==
  IF \E i \in 1..Len(labels) : labels[i] # ""
  THEN labels[CHOOSE i \in 1..Len(labels) :
                labels[i] # "" /\ \A j \in 1..(i - 1) : labels[j] = ""]
  ELSE ""

\* people.filter(p => p.id !== id && p.parentIds.some(pid => of.parentIds.includes(pid)))
SiblingsOf(ps, of) ==
  {i \in 1..Len(ps) : /\ ps[i].id # of.id
                      /\ \E pid \in Range(ps[i].parentIds) : Includes(of.parentIds, pid)}

spouseRule(person1, person2) ==
  IF Includes(person1.spouseIds, person2.id)
  THEN ByGender(person2.gender, "Husband", "Wife", "Spouse") ELSE ""

parentRule(person1, person2) ==
  IF Includes(person1.parentIds, person2.id)
  THEN ByGender(person2.gender, "Father", "Mother", "Parent") ELSE ""

\* the child rule as it would be with the two persons taken the wrong way round
childRuleSwapped(person1, person2) ==
  IF Includes(person2.childIds, person1.id)
  THEN ByGender(person2.gender, "Son", "Daughter", "Child") ELSE ""

childRule(person1, person2) ==
  IF Includes(person1.childIds, person2.id)
  THEN ByGender(person2.gender, "Son", "Daughter", "Child") ELSE ""

\* the sibling rule as it would be with the label taken from person1's gender
siblingRuleOwnGender(person1, person2) ==
  IF \E pid \in Range(person1.parentIds) : Includes(person2.parentIds, pid)
  THEN ByGender(person1.gender, "Brother", "Sister", "Sibling") ELSE ""

siblingRule(person1, person2) ==
  IF \E pid \in Range(person1.parentIds) : Includes(person2.parentIds, pid)
  THEN ByGender(person2.gender, "Brother", "Sister", "Sibling") ELSE ""

grandparentRule(ps, person1, person2) ==
  IF \E parentId \in Range(person1.parentIds) :
       Has(ps, parentId) /\ Includes(Get(ps, parentId).parentIds, person2.id)
  THEN ByGender(person2.gender, "Grandfather", "Grandmother", "Grandparent") ELSE ""

\* the grandchild rule as it would be with the label taken from person1's gender
grandchildRuleOwnGender(ps, person1, person2) ==
  IF \E childId \in Range(person1.childIds) :
       Has(ps, childId) /\ Includes(Get(ps, childId).childIds, person2.id)
  THEN ByGender(person1.gender, "Grandson", "Granddaughter", "Grandchild") ELSE ""

grandchildRule(ps, person1, person2) ==
  IF \E childId \in Range(person1.childIds) :
       Has(ps, childId) /\ Includes(Get(ps, childId).childIds, person2.id)
  THEN ByGender(person2.gender, "Grandson", "Granddaughter", "Grandchild") ELSE ""

greatGrandparentRule(ps, person1, person2) ==
  IF \E parentId \in Range(person1.parentIds) :
       /\ Has(ps, parentId)
       /\ \E gpId \in Range(Get(ps, parentId).parentIds) :
            Has(ps, gpId) /\ Includes(Get(ps, gpId).parentIds, person2.id)
  THEN ByGender(person2.gender, "Great Grandfather", "Great Grandmother",
                "Great Grandparent")
  ELSE ""

greatGrandchildRule(ps, person1, person2) ==
  IF \E childId \in Range(person1.childIds) :
       /\ Has(ps, childId)
       /\ \E gcId \in Range(Get(ps, childId).childIds) :
            Has(ps, gcId) /\ Includes(Get(ps, gcId).childIds, person2.id)
  THEN ByGender(person2.gender, "Great Grandson", "Great Granddaughter",
                "Great Grandchild")
  ELSE ""

\* uncle / aunt: the parents are tried in parentIds order, for each first the
\* parent's sibling itself, then the spouse of a parent's sibling
uncleAuntAt(ps, parentId, person2) ==
  IF ~Has(ps, parentId) THEN ""
  ELSE LET parent == Get(ps, parentId)
           parentSiblings == SiblingsOf(ps, parent)
       IN  IF \E s \in parentSiblings : ps[s].id = person2.id
           THEN IF person2.gender = "male"
                THEN (IF parent.gender = "female" THEN "Maternal Uncle"
                      ELSE "Paternal Uncle")
                ELSE IF person2.gender = "female"
                THEN (IF parent.gender = "female" THEN "Maternal Aunt"
                      ELSE "Paternal Aunt")
                ELSE "Uncle/Aunt"
           ELSE IF \E s \in parentSiblings : Includes(ps[s].spouseIds, person2.id)
           THEN IF person2.gender = "male" THEN "Uncle (by marriage)"
                ELSE "Aunt (by marriage)"
           ELSE ""

uncleAuntRule(ps, person1, person2) ==
  FirstLabel([k \in 1..Len(person1.parentIds) |->
                uncleAuntAt(ps, person1.parentIds[k], person2)])

nephewNieceRule(ps, person1, person2) ==
  IF \E s \in SiblingsOf(ps, person1) : Includes(ps[s].childIds, person2.id)
  THEN ByGender(person2.gender, "Nephew", "Niece", "Nephew/Niece") ELSE ""

cousinRule(ps, person1, person2) ==
  IF \E parentId \in Range(person1.parentIds) :
       /\ Has(ps, parentId)
       /\ \E u \in SiblingsOf(ps, Get(ps, parentId)) :
            Includes(ps[u].childIds, person2.id)
  THEN ByGender(person2.gender, "Cousin Brother", "Cousin Sister", "Cousin") ELSE ""

parentInLawRule(ps, person1, person2) ==
  IF \E spouseId \in Range(person1.spouseIds) :
       Has(ps, spouseId) /\ Includes(Get(ps, spouseId).parentIds, person2.id)
  THEN ByGender(person2.gender, "Father-in-law", "Mother-in-law", "Parent-in-law")
  ELSE ""

childInLawRule(ps, person1, person2) ==
  IF \E childId \in Range(person1.childIds) :
       Has(ps, childId) /\ Includes(Get(ps, childId).spouseIds, person2.id)
  THEN ByGender(person2.gender, "Son-in-law", "Daughter-in-law", "Child-in-law")
  ELSE ""

spouseSiblingRule(ps, person1, person2) ==
  IF \E spouseId \in Range(person1.spouseIds) :
       /\ Has(ps, spouseId)
       /\ \E s \in SiblingsOf(ps, Get(ps, spouseId)) : ps[s].id = person2.id
  THEN ByGender(person2.gender, "Brother-in-law", "Sister-in-law", "Sibling-in-law")
  ELSE ""

siblingSpouseRule(ps, person1, person2) ==
  IF \E s \in SiblingsOf(ps, person1) : Includes(ps[s].spouseIds, person2.id)
  THEN (IF person2.gender = "male" THEN "Brother-in-law" ELSE "Sister-in-law")
  ELSE ""

\* co-brother / co-sister: a person2 that is neither male nor female returns
\* nothing here and falls through to the fallback
coSiblingRule(ps, person1, person2) ==
  IF \E spouseId \in Range(person1.spouseIds) :
       /\ Has(ps, spouseId)
       /\ \E s \in SiblingsOf(ps, Get(ps, spouseId)) :
            Includes(ps[s].spouseIds, person2.id)
  THEN ByGender(person2.gender, "Co-Brother", "Co-Sister", "")
  ELSE ""

\* the fallback as it would be with the thresholds at 3 in place of 2
fallbackRuleBeyondThree(ps, path) ==
  LET genDiff == getGenerationDiff(ps, path, 1)
  IN  IF genDiff < -3 THEN "Ancestor (" \o ToString(-genDiff) \o " generations)"
      ELSE IF genDiff > 3 THEN "Descendant (" \o ToString(genDiff) \o " generations)"
      ELSE IF goesThoughSpouse(ps, path) THEN "Relative by marriage"
      ELSE "Relative"

fallbackRule(ps, path) ==
  LET genDiff == getGenerationDiff(ps, path, 1)
  IN  IF genDiff < -2 THEN "Ancestor (" \o ToString(-genDiff) \o " generations)"
      ELSE IF genDiff > 2 THEN "Descendant (" \o ToString(genDiff) \o " generations)"
      ELSE IF goesThoughSpouse(ps, path) THEN "Relative by marriage"
      ELSE "Relative"

\* the rules as they would be with the parent rule tried before the spouse rule
classifyParentFirst(ps, person1, person2, path) ==
  FirstLabel(<<parentRule(person1, person2),
               spouseRule(person1, person2),
               childRule(person1, person2),
               siblingRule(person1, person2),
               grandparentRule(ps, person1, person2),
               grandchildRule(ps, person1, person2),
               greatGrandparentRule(ps, person1, person2),
               greatGrandchildRule(ps, person1, person2),
               uncleAuntRule(ps, person1, person2),
               nephewNieceRule(ps, person1, person2),
               cousinRule(ps, person1, person2),
               parentInLawRule(ps, person1, person2),
               childInLawRule(ps, person1, person2),
               spouseSiblingRule(ps, person1, person2),
               siblingSpouseRule(ps, person1, person2),
               coSiblingRule(ps, person1, person2),
               fallbackRule(ps, path)>>)

\* the rules of findRelationship in source order; the first match wins
classify(ps, person1, person2, path) ==
  FirstLabel(<<spouseRule(person1, person2),
               parentRule(person1, person2),
               childRule(person1, person2),
               siblingRule(person1, person2),
               grandparentRule(ps, person1, person2),
               grandchildRule(ps, person1, person2),
               greatGrandparentRule(ps, person1, person2),
               greatGrandchildRule(ps, person1, person2),
               uncleAuntRule(ps, person1, person2),
               nephewNieceRule(ps, person1, person2),
               cousinRule(ps, person1, person2),
               parentInLawRule(ps, person1, person2),
               childInLawRule(ps, person1, person2),
               spouseSiblingRule(ps, person1, person2),
               siblingSpouseRule(ps, person1, person2),
               coSiblingRule(ps, person1, person2),
               fallbackRule(ps, path)>>)

findRelationship(ps, person1, person2) ==
  IF person1.id = person2.id
  THEN [english |-> "Same Person", path |-> <<person1.id>>]
  ELSE LET path == findPath(ps, person1.id, person2.id, {}, <<>>)
       IN  IF path = NullPath
           THEN [english |-> "No direct relationship found", path |-> <<>>]
           ELSE [english |-> classify(ps, person1, person2, path), path |-> path]

-----------------------------------------------------------------------------
(* Specification of the relationship resolver: any list of persons with    *)
(* parent, child and spouse references, then calls of findRelationship on  *)
(* two persons of the list.                                                *)

Both(E, kind, inverse, sym, i) ==
  SortedSeq(Targets(E, kind, i) \cup (IF sym THEN Sources(E, inverse, i) ELSE {}))

RelPeople(n, E, sym, rot) ==
  [i \in 1..n |-> Person(i, GenderOf(i, rot), 1,
                         Both(E, "parent", "child", sym, i),
                         Both(E, "child", "parent", sym, i),
                         Both(E, "spouse", "spouse", sym, i),
                         NullPosition)]

InitRel ==
  /\ \E n \in 1..MaxPeople :
       \E E \in SubsetsUpTo(Pool({"parent", "child", "spouse"}, n), MaxRelEdges) :
         \E sym \in BOOLEAN, rot \in 0..3 :
           people = RelPeople(n, E, sym, rot)
  /\ call = NoCall
  /\ cycleRet = FALSE
  /\ relRet = NoRel
  /\ layoutRet = NoLayout
  /\ prevLayout = NoPrev
  /\ entryPeople = <<>>
  /\ ncalls = 0
  /\ pc = "idle"
  /\ queue = <<>>
  /\ generations = EmptyMap
  /\ EditorUnused
  /\ LinkUnused

CallFindRelationship(i, j) ==
  /\ call' = [op |-> "findRelationship", a |-> people[i].id, b |-> people[j].id,
              flag |-> FALSE]
  /\ relRet' = findRelationship(people, people[i], people[j])
  /\ UNCHANGED <<people, cycleRet, layoutRet, prevLayout, entryPeople, ncalls,
                 pc, queue, generations, editorVars, linkVars>>

NextRel == \E i \in 1..Len(people), j \in 1..Len(people) : CallFindRelationship(i, j)

SpecRel == InitRel /\ [][NextRel]_vars

\* parentIds/childIds are inverse of each other and spouseIds is symmetric,
\* among the persons of the list
Consistent(ps) ==
  \A i \in 1..Len(ps), j \in 1..Len(ps) :
    /\ Includes(ps[i].parentIds, ps[j].id) <=> Includes(ps[j].childIds, ps[i].id)
    /\ Includes(ps[i].spouseIds, ps[j].id) <=> Includes(ps[j].spouseIds, ps[i].id)

Acyclic(ps) == \A i \in 1..Len(ps) : ps[i].id \notin AncestorsOf(ps, ps[i].id)

ParentLabels == {"Father", "Mother", "Parent"}

ChildLabels == {"Son", "Daughter", "Child"}

IsRelCall == call.op = "findRelationship"

\* C8: in a consistent list with an acyclic parent relation, when
\* findRelationship(A, B) is a parent label, findRelationship(B, A) is a
\* child label.
RelationshipSymmetry ==
  (IsRelCall /\ Consistent(people) /\ Acyclic(people)
     /\ relRet.english \in ParentLabels)
  => findRelationship(people, Get(people, call.b), Get(people, call.a)).english
       \in ChildLabels

\* a parent label was returned for (A, B) in a consistent acyclic list
RelationshipSymmetryWitness ==
  /\ IsRelCall /\ Consistent(people) /\ Acyclic(people)
  /\ relRet.english = "Mother"
  /\ findRelationship(people, Get(people, call.b), Get(people, call.a)).english
       \in ChildLabels

\* three persons P1 -> P2 -> P3 (parent to child), both sides recorded, no
\* spouses; any other person of the list has no references
ChainScenario(ps, p1, p2, p3) ==
  /\ Cardinality({p1, p2, p3}) = 3
  /\ Has(ps, p1) /\ Has(ps, p2) /\ Has(ps, p3)
  /\ Get(ps, p1).parentIds = <<>> /\ Get(ps, p1).childIds = <<p2>>
  /\ Get(ps, p2).parentIds = <<p1>> /\ Get(ps, p2).childIds = <<p3>>
  /\ Get(ps, p3).parentIds = <<p2>> /\ Get(ps, p3).childIds = <<>>
  /\ \A i \in 1..Len(ps) :
       /\ ps[i].spouseIds = <<>>
       /\ ps[i].id \notin {p1, p2, p3}
            => ps[i].parentIds = <<>> /\ ps[i].childIds = <<>>

IsChainCall ==
  /\ IsRelCall
  /\ \E p2 \in PersonIds(people) : ChainScenario(people, call.a, p2, call.b)

ChainMiddle == CHOOSE p2 \in PersonIds(people) : ChainScenario(people, call.a, p2, call.b)

\* C9 as stated: findRelationship(P1, P3) is a grandparent label chosen by
\* the gender of P1, with path [P1, P2, P3].
GrandparentScenarioAsStated ==
  IsChainCall =>
    /\ relRet.english = ByGender(Get(people, call.a).gender,
                                 "Grandfather", "Grandmother", "Grandparent")
    /\ relRet.path = <<call.a, ChainMiddle, call.b>>

\* C9 amended: findRelationship(P1, P3) names what P3 is to P1: a grandchild
\* label chosen by the gender of P3, with path [P1, P2, P3].
GrandparentScenario ==
  IsChainCall =>
    /\ relRet.english = ByGender(Get(people, call.b).gender,
                                 "Grandson", "Granddaughter", "Grandchild")
    /\ relRet.path = <<call.a, ChainMiddle, call.b>>

\* the grandparent was asked about a granddaughter
GrandparentScenarioWitness ==
  /\ IsChainCall
  /\ Get(people, call.b).gender = "female"
  /\ relRet.english = "Granddaughter"
  /\ Len(relRet.path) = 3

\* three persons: P1 without parents, P2 and P3 its children, both sides
\* recorded, no spouses; any other person of the list has no references
SiblingScenario(ps, p1, p2, p3) ==
  /\ Cardinality({p1, p2, p3}) = 3
  /\ Has(ps, p1) /\ Has(ps, p2) /\ Has(ps, p3)
  /\ Get(ps, p1).parentIds = <<>> /\ Range(Get(ps, p1).childIds) = {p2, p3}
  /\ Len(Get(ps, p1).childIds) = 2
  /\ Get(ps, p2).parentIds = <<p1>> /\ Get(ps, p2).childIds = <<>>
  /\ Get(ps, p3).parentIds = <<p1>> /\ Get(ps, p3).childIds = <<>>
  /\ \A i \in 1..Len(ps) :
       /\ ps[i].spouseIds = <<>>
       /\ ps[i].id \notin {p1, p2, p3}
            => ps[i].parentIds = <<>> /\ ps[i].childIds = <<>>

IsSiblingCall ==
  /\ IsRelCall
  /\ \E p1 \in PersonIds(people) : SiblingScenario(people, p1, call.a, call.b)

SiblingParent == CHOOSE p1 \in PersonIds(people) : SiblingScenario(people, p1, call.a, call.b)

\* C11: for two children P2 and P3 of the same parent P1,
\* findRelationship(P2, P3) is "Brother", "Sister" or "Sibling" by the gender
\* of P3, and the path is [P2, P1, P3].
SiblingScenarioResult ==
  IsSiblingCall =>
    /\ relRet.english = ByGender(Get(people, call.b).gender,
                                 "Brother", "Sister", "Sibling")
    /\ relRet.path = <<call.a, SiblingParent, call.b>>

\* a sister was found for a person of another gender
SiblingScenarioResultWitness ==
  /\ IsSiblingCall
  /\ Get(people, call.b).gender = "female"
  /\ Get(people, call.a).gender # "female"
  /\ relRet.english = "Sister"
  /\ Len(relRet.path) = 3

\* ids reachable from the ids of S by parentIds, childIds and spouseIds
\* entries of persons of the list
RECURSIVE ReachClosure(_, _)
ReachClosure(ps, S) ==
  LET Refs(p) == Range(p.parentIds) \cup Range(p.childIds) \cup Range(p.spouseIds)
      step == S \cup UNION {Refs(Get(ps, s)) : s \in {t \in S : Has(ps, t)}}
  IN  IF step = S THEN S ELSE ReachClosure(ps, step)

Reachable(ps, from, to) == to \in ReachClosure(ps, {from})

NoRelationship == [english |-> "No direct relationship found", path |-> <<>>]

\* C10: for two different persons the result is the no-relationship result
\* exactly when person2 is not reachable from person1; otherwise the path is
\* non-empty.
NoRelationshipResult ==
  (IsRelCall /\ call.a # call.b) =>
    /\ relRet = NoRelationship <=> ~Reachable(people, call.a, call.b)
    /\ Reachable(people, call.a, call.b) => relRet.path # <<>>

\* person1 has references, person2 is still out of reach
NoRelationshipResultWitness ==
  /\ IsRelCall /\ call.a # call.b
  /\ ReachClosure(people, {call.a}) # {call.a}
  /\ ~Reachable(people, call.a, call.b)
  /\ relRet = NoRelationship

-----------------------------------------------------------------------------
(* lib/tree-layout.ts: generations                                         *)

\* buildChildrenMap(people).get(id) || []: the persons listing id as parent,
\* in list order, each once
buildChildrenMap(ps, id) ==
  IF ~Has(ps, id) THEN <<>>
  ELSE LET Hit(p) == IF Includes(p.parentIds, id) THEN <<p.id>> ELSE <<>>
       IN  FlatMap(ps, Hit)

\* the queue of calculateGenerations on entry of the loop: the roots at 0
findRoots(ps) ==
  LET Root(p) == IF Len(p.parentIds) = 0 THEN <<[id |-> p.id, gen |-> 0]>> ELSE <<>>
  IN  FlatMap(ps, Root)

\* one iteration of the while loop of calculateGenerations
GenerationsStep(ps, q, g) ==
  LET id == Head(q).id
      gen == Head(q).gen
      g1 == IF id \notin DOMAIN g \/ g[id] < gen THEN MapSet(g, id, gen) ELSE g
      Push(childId) == IF childId \notin DOMAIN g1 \/ g1[childId] < gen + 1
                       THEN <<[id |-> childId, gen |-> gen + 1]>> ELSE <<>>
  IN  [queue |-> Tail(q) \o FlatMap(buildChildrenMap(ps, id), Push),
       generations |-> g1]

\* "Handle disconnected nodes": every person without a generation gets 0
GenerationsFill(ps, g) ==
  [k \in DOMAIN g \cup PersonIds(ps) |-> IF k \in DOMAIN g THEN g[k] ELSE 0]

\* the loop run to its end; it has no end when a queued generation passes
\* every bound, which the model reports as done = FALSE
RECURSIVE GenerationsLoop(_, _, _)
GenerationsLoop(ps, q, g) ==
  IF q = <<>> THEN [done |-> TRUE, generations |-> GenerationsFill(ps, g)]
  ELSE IF Head(q).gen > MaxGen THEN [done |-> FALSE, generations |-> g]
  ELSE LET s == GenerationsStep(ps, q, g)
       IN  GenerationsLoop(ps, s.queue, s.generations)

calculateGenerations(ps) == GenerationsLoop(ps, findRoots(ps), EmptyMap)

-----------------------------------------------------------------------------
(* lib/tree-layout.ts: Array.prototype.sort as the layout uses it.  For    *)
(* arrays of this size the engine finds the leading run, reverses it when  *)
(* it descends, and inserts the remaining elements by binary search; the   *)
(* comparator of the layout is no total order when spouses meet, so the    *)
(* order of the calls decides the result.                                  *)

areSpouses(person1, person2) ==
  Includes(person1.spouseIds, person2.id) \/ Includes(person2.spouseIds, person1.id)

\* the comparator of the bottom row: spouses compare equal, others by givenName
compareSiblings(a, b) ==
  IF areSpouses(a, b) THEN 0
  ELSE IF a.givenName < b.givenName THEN -1
  ELSE IF a.givenName > b.givenName THEN 1
  ELSE 0

Reverse(s) == [i \in 1..Len(s) |-> s[Len(s) + 1 - i]]

RECURSIVE RunEnd(_, _, _)
RunEnd(arr, descending, idx) ==
  IF idx > Len(arr) THEN Len(arr)
  ELSE LET order == compareSiblings(arr[idx], arr[idx - 1])
       IN  IF (descending /\ order >= 0) \/ (~descending /\ order < 0)
           THEN idx - 1
           ELSE RunEnd(arr, descending, idx + 1)

RECURSIVE BinarySearch(_, _, _, _)
BinarySearch(arr, pivot, left, right) ==
  IF left >= right THEN left
  ELSE LET mid == left + ((right - left) \div 2)
       IN  IF compareSiblings(pivot, arr[mid]) < 0
           THEN BinarySearch(arr, pivot, left, mid)
           ELSE BinarySearch(arr, pivot, mid + 1, right)

RECURSIVE BinaryInsertionSort(_, _)
BinaryInsertionSort(arr, start) ==
  IF start > Len(arr) THEN arr
  ELSE LET pivot == arr[start]
           left == BinarySearch(arr, pivot, 1, start)
           moved == [p \in 1..Len(arr) |->
                       IF p < left \/ p > start THEN arr[p]
                       ELSE IF p = left THEN pivot
                       ELSE arr[p - 1]]
       IN  BinaryInsertionSort(moved, start + 1)

SortSiblings(group) ==
  IF Len(group) < 2 THEN group
  ELSE LET descending == compareSiblings(group[2], group[1]) < 0
           runLength == RunEnd(group, descending, 3)
           run == IF descending
                  THEN Reverse(SubSeq(group, 1, runLength))
                         \o SubSeq(group, runLength + 1, Len(group))
                  ELSE group
       IN  BinaryInsertionSort(run, runLength + 1)

-----------------------------------------------------------------------------
(* lib/tree-layout.ts: positions.  nodePositions and positionedIds are     *)
(* always written together: positionedIds is the domain of nodePositions.  *)

\* generationGroups.get(gen) || []: the persons of a generation in list order
GenPeople(ps, g, gen) ==
  LET Hit(p) == IF g[p.id] = gen THEN <<p>> ELSE <<>>
  IN  FlatMap(ps, Hit)

\* person.parentIds.slice().sort().join('-')
ParentKey(person) ==
  LET RECURSIVE Ins(_, _)
      Ins(sorted, x) ==
        IF sorted = <<>> THEN <<x>>
        ELSE IF x < Head(sorted) THEN <<x>> \o sorted
        ELSE <<Head(sorted)>> \o Ins(Tail(sorted), x)
      RECURSIVE Sort(_, _)
      Sort(done, todo) ==
        IF todo = <<>> THEN done ELSE Sort(Ins(done, Head(todo)), Tail(todo))
  IN  Sort(<<>>, person.parentIds)

\* the groups of the bottom row: one per parent key in order of first
\* appearance, then the persons without parents
BottomGroups(genPeople) ==
  LET parented == SelectSeq(genPeople, LAMBDA p : Len(p.parentIds) # 0)
      orphans == SelectSeq(genPeople, LAMBDA p : Len(p.parentIds) = 0)
      First(i) == \A j \in 1..(i - 1) : ParentKey(parented[j]) # ParentKey(parented[i])
      Group(i) == IF First(i)
                  THEN <<SelectSeq(parented,
                           LAMBDA p : ParentKey(p) = ParentKey(parented[i]))>>
                  ELSE <<>>
  IN  Flatten([i \in 1..Len(parented) |-> Group(i)])
        \o (IF Len(orphans) > 0 THEN <<orphans>> ELSE <<>>)

\* positions of one sorted group from currentX on
RECURSIVE PlaceGroup(_, _, _, _)
PlaceGroup(sorted, currentX, y, np) ==
  IF sorted = <<>> THEN [x |-> currentX, np |-> np]
  ELSE LET person == Head(sorted)
       IN  IF person.id \in DOMAIN np
           THEN PlaceGroup(Tail(sorted), currentX, y, np)
           ELSE PlaceGroup(Tail(sorted), currentX + HORIZONTAL_SPACING, y,
                           MapSet(np, person.id, [x |-> currentX, y |-> y]))

RECURSIVE PlaceBottom(_, _, _, _)
PlaceBottom(groups, currentX, y, np) ==
  IF groups = <<>> THEN np
  ELSE LET placed == PlaceGroup(SortSiblings(Head(groups)), currentX, y, np)
       IN  PlaceBottom(Tail(groups),
                       IF Len(groups) > 1 THEN placed.x + UNIT_SPACING ELSE placed.x,
                       y, placed.np)

\* person.spouseIds.filter(...): the spouses of the list that are in row gen
SpousesInGen(ps, g, gen, person) ==
  SelectSeq(person.spouseIds, LAMBDA spouseId : Has(ps, spouseId) /\ g[spouseId] = gen)

\* [a, b].sort().join('-')
PairKey(a, b) == IF a <= b THEN <<a, b>> ELSE <<b, a>>

\* units.push([person, spouse]) for every spouse whose pair is not yet processed
RECURSIVE AddCouples(_, _, _, _)
AddCouples(ps, person, spouseIds, acc) ==
  IF spouseIds = <<>> THEN acc
  ELSE LET pairKey == PairKey(person.id, Head(spouseIds))
       IN  IF pairKey \in acc.processedPairs
           THEN AddCouples(ps, person, Tail(spouseIds), acc)
           ELSE AddCouples(ps, person, Tail(spouseIds),
                  [processedPairs |-> acc.processedPairs \cup {pairKey},
                   units |-> Append(acc.units, <<person, Get(ps, Head(spouseIds))>>)])

\* first pass over the row: the persons with more than one spouse in the row
RECURSIVE MultiSpousePass(_, _, _, _, _)
MultiSpousePass(ps, g, gen, todo, acc) ==
  IF todo = <<>> THEN acc
  ELSE LET spousesInGen == SpousesInGen(ps, g, gen, Head(todo))
       IN  MultiSpousePass(ps, g, gen, Tail(todo),
             IF Len(spousesInGen) > 1
             THEN AddCouples(ps, Head(todo), spousesInGen, acc) ELSE acc)

\* second pass: the couples of persons with one spouse in the row, and the
\* persons with none that are in no processed pair.  The pair keys are the
\* two ids joined by '-'; the ids are UUIDs (crypto.randomUUID), all of one
\* length, for which key.includes(person.id) holds of the two ids of the
\* pair only.
RECURSIVE SinglePass(_, _, _, _, _)
SinglePass(ps, g, gen, todo, acc) ==
  IF todo = <<>> THEN acc
  ELSE LET person == Head(todo)
           spousesInGen == SpousesInGen(ps, g, gen, person)
           isInPair == \E key \in acc.processedPairs : person.id \in Range(key)
       IN  SinglePass(ps, g, gen, Tail(todo),
             IF Len(spousesInGen) = 1 THEN AddCouples(ps, person, spousesInGen, acc)
             ELSE IF Len(spousesInGen) = 0 /\ ~isInPair
             THEN [processedPairs |-> acc.processedPairs,
                   units |-> Append(acc.units, <<person>>)]
             ELSE acc)

Units(ps, g, gen) ==
  LET genPeople == GenPeople(ps, g, gen)
  IN  SinglePass(ps, g, gen, genPeople,
        MultiSpousePass(ps, g, gen, genPeople, [processedPairs |-> {}, units |-> <<>>])).units

\* the centre as it would be at the leftmost child in place of the middle
CenterXLeftmostChild(ps, unit, np) ==
  LET unitChildIds == UNION {Range(buildChildrenMap(ps, unit[k].id)) : k \in 1..Len(unit)}
      childXs == {np[cid].x : cid \in unitChildIds \cap DOMAIN np}
      existingX == {np[id].x : id \in DOMAIN np}
  IN  IF unitChildIds # {}
      THEN IF childXs # {}
           THEN MinOf(childXs)
           ELSE CANVAS_PADDING + Cardinality(DOMAIN np) * HORIZONTAL_SPACING
      ELSE IF existingX # {} THEN MaxOf(existingX) + HORIZONTAL_SPACING
           ELSE CANVAS_PADDING

\* the centre of a unit: over its positioned children, else a running x,
\* else right of everything placed so far
CenterX(ps, unit, np) ==
  LET unitChildIds == UNION {Range(buildChildrenMap(ps, unit[k].id)) : k \in 1..Len(unit)}
      childXs == {np[cid].x : cid \in unitChildIds \cap DOMAIN np}
      existingX == {np[id].x : id \in DOMAIN np}
  IN  IF unitChildIds # {}
      THEN IF childXs # {}
           THEN (MinOf(childXs) + MaxOf(childXs)) \div 2
           ELSE CANVAS_PADDING + Cardinality(DOMAIN np) * HORIZONTAL_SPACING
      ELSE IF existingX # {} THEN MaxOf(existingX) + HORIZONTAL_SPACING
           ELSE CANVAS_PADDING

PlaceIfFree(np, id, x, y) ==
  IF id \in DOMAIN np THEN np ELSE MapSet(np, id, [x |-> x, y |-> y])

PlaceUnit(ps, unit, y, np) ==
  LET centerX == CenterX(ps, unit, np)
      halfGap == SPOUSE_SPACING \div 2
  IN  IF Len(unit) = 2
      THEN PlaceIfFree(PlaceIfFree(np, unit[1].id, centerX - halfGap, y),
                       unit[2].id, centerX + halfGap, y)
      ELSE PlaceIfFree(np, unit[1].id, centerX, y)

RECURSIVE PlaceUnits(_, _, _, _)
PlaceUnits(ps, units, y, np) ==
  IF units = <<>> THEN np
  ELSE PlaceUnits(ps, Tail(units), y, PlaceUnit(ps, Head(units), y, np))

\* the loop "for (let gen = maxGeneration; gen >= 0; gen--)"
RECURSIVE PlaceRows(_, _, _, _, _)
PlaceRows(ps, g, maxGeneration, gen, np) ==
  IF gen < 0 THEN np
  ELSE LET y == CANVAS_PADDING + gen * VERTICAL_SPACING
       IN  PlaceRows(ps, g, maxGeneration, gen - 1,
             IF gen = maxGeneration
             THEN PlaceBottom(BottomGroups(GenPeople(ps, g, gen)), CANVAS_PADDING, y, np)
             ELSE PlaceUnits(ps, Units(ps, g, gen), y, np))

nodePositions(ps, g) ==
  PlaceRows(ps, g, MaxOf({g[id] : id \in DOMAIN g}), MaxOf({g[id] : id \in DOMAIN g}),
            EmptyMap)

-----------------------------------------------------------------------------
(* lib/tree-layout.ts: the layout nodes, the normalisation shift and the   *)
(* canvas size.  computedPosition of a person with a manual position is,   *)
(* without autoAlign, the very position object of the person, so the shift *)
(* "node.computedPosition.x += shiftX" writes into the input list.         *)

\* the node takes the person's own position object
Aliased(person, autoAlign) == ~autoAlign /\ person.position.has

\* computedPosition before the normalisation shift
RawPosition(person, autoAlign, g, np) ==
  IF Aliased(person, autoAlign)
  THEN [x |-> person.position.x, y |-> person.position.y]
  ELSE IF person.id \in DOMAIN np THEN np[person.id]
  ELSE [x |-> CANVAS_PADDING, y |-> CANVAS_PADDING + g[person.id] * VERTICAL_SPACING]

ShiftX(ps, autoAlign, g, np) ==
  LET minX == MinOf({RawPosition(ps[i], autoAlign, g, np).x : i \in 1..Len(ps)})
  IN  IF minX < CANVAS_PADDING THEN CANVAS_PADDING - minX ELSE 0

\* the LayoutResult, given the generations map
LayoutResult(ps, autoAlign, g) ==
  IF Len(ps) = 0 THEN [nodes |-> <<>>, width |-> MIN_WIDTH, height |-> MIN_HEIGHT]
  ELSE LET np == nodePositions(ps, g)
           shiftX == ShiftX(ps, autoAlign, g, np)
           nodes == [i \in 1..Len(ps) |->
                       LET raw == RawPosition(ps[i], autoAlign, g, np)
                       IN  [id |-> ps[i].id,
                            computedPosition |-> [x |-> raw.x + shiftX, y |-> raw.y],
                            generation |-> g[ps[i].id]]]
       IN  [nodes |-> nodes,
            width |-> MaxOf({nodes[i].computedPosition.x : i \in 1..Len(ps)}
                              \cup {MIN_WIDTH}) + CANVAS_PADDING,
            height |-> MaxOf({nodes[i].computedPosition.y : i \in 1..Len(ps)}
                               \cup {MIN_HEIGHT}) + CANVAS_PADDING]

\* the people list after the call: the shifted position objects
PeopleAfterLayout(ps, autoAlign, g) ==
  IF Len(ps) = 0 THEN ps
  ELSE LET shiftX == ShiftX(ps, autoAlign, g, nodePositions(ps, g))
       IN  [i \in 1..Len(ps) |->
              IF Aliased(ps[i], autoAlign)
              THEN [ps[i] EXCEPT !.position.x = @ + shiftX]
              ELSE ps[i]]

-----------------------------------------------------------------------------
(* Specification of the layout: any list of persons with parent and spouse *)
(* references and some manual positions, then calls of computeLayout on    *)
(* that same list.                                                         *)

\* a node can be dragged anywhere, into the padding too
ManualPositions == {Position(40, 60), Position(500, 300)}

\* the assignments of manual positions to at most MaxManual persons
RECURSIVE ManualChoices(_, _)
ManualChoices(n, k) ==
  IF k = 0 THEN {[i \in 1..n |-> NullPosition]}
  ELSE LET prev == ManualChoices(n, k - 1)
       IN  prev \cup {[m EXCEPT ![i] = pos] : m \in prev, i \in 1..n, pos \in ManualPositions}

\* given names fall along the list, so that sorting a row has work to do
LayoutPeople(n, E, manual) ==
  [i \in 1..n |-> Person(i, "", n + 1 - i,
                         Literal(E, "parent", i), <<>>, Literal(E, "spouse", i),
                         manual[i])]

InitLayout ==
  /\ \E n \in 0..MaxPeople :
       \E E \in SubsetsUpTo(Pool({"parent", "spouse"}, n), MaxEdges) :
         \E manual \in ManualChoices(n, MaxManual) :
           people = LayoutPeople(n, E, manual)
  /\ call = NoCall
  /\ cycleRet = FALSE
  /\ relRet = NoRel
  /\ layoutRet = NoLayout
  /\ prevLayout = NoPrev
  /\ entryPeople = <<>>
  /\ ncalls = 0
  /\ pc = "idle"
  /\ queue = <<>>
  /\ generations = EmptyMap
  /\ EditorUnused
  /\ LinkUnused

\* a call of computeLayout that returns
CallComputeLayout(autoAlign) ==
  /\ pc # "hung"
  /\ ncalls < MaxCalls
  /\ LET gens == IF Len(people) = 0 THEN [done |-> TRUE, generations |-> EmptyMap]
                 ELSE calculateGenerations(people)
     IN  /\ gens.done
         /\ layoutRet' = LayoutResult(people, autoAlign, gens.generations)
         /\ people' = PeopleAfterLayout(people, autoAlign, gens.generations)
  /\ call' = [op |-> "computeLayout", a |-> 0, b |-> 0, flag |-> autoAlign]
  /\ prevLayout' = [call |-> call, ret |-> layoutRet]
  /\ entryPeople' = people
  /\ ncalls' = ncalls + 1
  /\ pc' = "done"
  /\ UNCHANGED <<cycleRet, relRet, queue, generations, editorVars, linkVars>>

\* a call of computeLayout whose generations loop has no end
CallComputeLayoutHangs(autoAlign) ==
  /\ pc # "hung"
  /\ ncalls < MaxCalls
  /\ Len(people) > 0
  /\ ~calculateGenerations(people).done
  /\ call' = [op |-> "computeLayout", a |-> 0, b |-> 0, flag |-> autoAlign]
  /\ entryPeople' = people
  /\ pc' = "hung"
  /\ UNCHANGED <<people, cycleRet, relRet, layoutRet, prevLayout, ncalls, queue,
                 generations, editorVars, linkVars>>

NextLayout ==
  \E autoAlign \in BOOLEAN :
    \/ CallComputeLayout(autoAlign)
    \/ CallComputeLayoutHangs(autoAlign)

SpecLayout == InitLayout /\ [][NextLayout]_vars

IsLayoutReturn == call.op = "computeLayout" /\ pc = "done"

\* the nodes are returned in list order
NodeIndexes == 1..Len(layoutRet.nodes)

\* C3: on a list with an acyclic parent relation, every person gets a
\* generation strictly greater than that of each of its parents in the list,
\* and with autoAlign the parent is placed strictly above the child.
GenerationMonotonicity ==
  (IsLayoutReturn /\ Acyclic(entryPeople)) =>
    \A i \in NodeIndexes, j \in NodeIndexes :
      Includes(entryPeople[i].parentIds, entryPeople[j].id) =>
        /\ layoutRet.nodes[i].generation > layoutRet.nodes[j].generation
        /\ call.flag => layoutRet.nodes[j].computedPosition.y
                          < layoutRet.nodes[i].computedPosition.y

\* C4: two persons of the list that list each other as spouse get the same
\* generation, and with autoAlign the same y.
SpouseCoGeneration ==
  IsLayoutReturn =>
    \A i \in NodeIndexes, j \in NodeIndexes :
      (/\ Includes(entryPeople[i].spouseIds, entryPeople[j].id)
       /\ Includes(entryPeople[j].spouseIds, entryPeople[i].id)) =>
        /\ layoutRet.nodes[i].generation = layoutRet.nodes[j].generation
        /\ call.flag => layoutRet.nodes[i].computedPosition.y
                          = layoutRet.nodes[j].computedPosition.y

\* C5: computeLayout leaves its input as it was on entry.
InputUnmodified == IsLayoutReturn => people = entryPeople

WithoutPositions(ps) == [i \in 1..Len(ps) |-> [ps[i] EXCEPT !.position = NullPosition]]

\* C6: without autoAlign a person with a manual position is returned at that
\* position; with autoAlign the result is that of the list without positions.
ManualPositionPrecedence ==
  IsLayoutReturn =>
    /\ ~call.flag =>
         \A i \in NodeIndexes :
           entryPeople[i].position.has =>
             layoutRet.nodes[i].computedPosition
               = [x |-> entryPeople[i].position.x, y |-> entryPeople[i].position.y]
    /\ call.flag =>
         layoutRet = LayoutResult(WithoutPositions(entryPeople), TRUE,
                                  calculateGenerations(entryPeople).generations)

\* C7: two calls in succession on the same list with the same autoAlign flag
\* return the same nodes, width and height.
LayoutDeterminism ==
  (IsLayoutReturn /\ prevLayout.call.op = "computeLayout"
     /\ prevLayout.call.flag = call.flag)
  => layoutRet = prevLayout.ret

Distance(a, b) == IF a <= b THEN b - a ELSE a - b

NodeX(i) == layoutRet.nodes[i].computedPosition.x

NodeY(i) == layoutRet.nodes[i].computedPosition.y

MutualSpouses(ps, i, j) ==
  /\ Includes(ps[i].spouseIds, ps[j].id)
  /\ Includes(ps[j].spouseIds, ps[i].id)

\* exactly two persons, spouses of each other, without parents
IsCouple(ps) ==
  /\ Len(ps) = 2
  /\ ps[1].id # ps[2].id
  /\ MutualSpouses(ps, 1, 2)
  /\ ps[1].parentIds = <<>> /\ ps[2].parentIds = <<>>

\* C16: for a list of exactly two persons that list each other as spouse and
\* have no parents, computeLayout with autoAlign places both at generation 0
\* with the same y, and their x coordinates differ by SPOUSE_SPACING / 2.
CoupleScenario ==
  (IsLayoutReturn /\ call.flag /\ IsCouple(entryPeople)) =>
    /\ layoutRet.nodes[1].generation = 0 /\ layoutRet.nodes[2].generation = 0
    /\ NodeY(1) = NodeY(2)
    /\ Distance(NodeX(1), NodeX(2)) = SPOUSE_SPACING \div 2

\* C17: for a non-empty list and either value of autoAlign, the result has
\* width >= 800 and height >= 600 and every node lies in the padded canvas:
\* CANVAS_PADDING <= x <= width - CANVAS_PADDING and
\* CANVAS_PADDING <= y <= height - CANVAS_PADDING.
CanvasBounds ==
  (IsLayoutReturn /\ Len(entryPeople) > 0) =>
    /\ layoutRet.width >= MIN_WIDTH
    /\ layoutRet.height >= MIN_HEIGHT
    /\ \A i \in NodeIndexes :
         /\ CANVAS_PADDING <= NodeX(i)
         /\ NodeX(i) <= layoutRet.width - CANVAS_PADDING
         /\ CANVAS_PADDING <= NodeY(i)
         /\ NodeY(i) <= layoutRet.height - CANVAS_PADDING

-----------------------------------------------------------------------------
(* Specification of the layout of families: lists of up to MaxFamily       *)
(* persons without manual positions, with a few parent references and a    *)
(* few couples whose two members list each other as spouse, then calls of  *)
(* computeLayout.                                                          *)

MaxFamily == 5
MaxParentEdges == 3
MaxCouples == 2
\* parent references and couples together
MaxTies == 4

ParentEdges(n) == {e \in {"parent"} \X (1..n) \X (1..n) : e[2] # e[3]}

Couples(n) == {c \in (1..n) \X (1..n) : c[1] < c[2]}

SpouseEdges(C) == {<<"spouse", c[1], c[2]>> : c \in C} \cup {<<"spouse", c[2], c[1]>> : c \in C}

InitFamily ==
  /\ \E n \in 1..MaxFamily :
       \E E \in SubsetsUpTo(ParentEdges(n), MaxParentEdges) :
         \E C \in SubsetsUpTo(Couples(n), MaxCouples) :
           /\ Cardinality(E) + Cardinality(C) <= MaxTies
           /\ people = LayoutPeople(n, E \cup SpouseEdges(C), [i \in 1..n |-> NullPosition])
  /\ call = NoCall
  /\ cycleRet = FALSE
  /\ relRet = NoRel
  /\ layoutRet = NoLayout
  /\ prevLayout = NoPrev
  /\ entryPeople = <<>>
  /\ ncalls = 0
  /\ pc = "idle"
  /\ queue = <<>>
  /\ generations = EmptyMap
  /\ EditorUnused
  /\ LinkUnused

SpecFamily == InitFamily /\ [][NextLayout]_vars

SameRow(i, j) == layoutRet.nodes[i].generation = layoutRet.nodes[j].generation

ShareParent(ps, i, j) == Range(ps[i].parentIds) \cap Range(ps[j].parentIds) # {}

DeepestRow == MaxOf({layoutRet.nodes[i].generation : i \in NodeIndexes})

\* C15: with autoAlign, two distinct persons in the same generation row that
\* share a parent are at least HORIZONTAL_SPACING apart in x, and two persons
\* of the deepest row that belong to different parent groups are at least
\* HORIZONTAL_SPACING + UNIT_SPACING apart.
SiblingNonOverlap ==
  (IsLayoutReturn /\ call.flag) =>
    \A i \in NodeIndexes, j \in NodeIndexes :
      (i # j /\ SameRow(i, j)) =>
        /\ ShareParent(entryPeople, i, j) =>
             Distance(NodeX(i), NodeX(j)) >= HORIZONTAL_SPACING
        /\ (/\ layoutRet.nodes[i].generation = DeepestRow
            /\ ParentKey(entryPeople[i]) # ParentKey(entryPeople[j])) =>
             Distance(NodeX(i), NodeX(j)) >= HORIZONTAL_SPACING + UNIT_SPACING

\* the spouses of person i that list i in turn and are in i's generation
SpousesInRow(i) ==
  {s \in NodeIndexes : s # i /\ MutualSpouses(entryPeople, i, s) /\ SameRow(i, s)}

SpouseIdsSymmetric(ps) ==
  \A i \in 1..Len(ps), j \in 1..Len(ps) :
    Includes(ps[i].spouseIds, ps[j].id) => Includes(ps[j].spouseIds, ps[i].id)

\* C14: with autoAlign and symmetric spouseIds, a person above the deepest
\* row that has two or more spouses in its own generation, and all of those
\* spouses, are at pairwise distinct (x, y) positions.
RepeatedSpousesDistinct ==
  (IsLayoutReturn /\ call.flag /\ SpouseIdsSymmetric(entryPeople)) =>
    \A i \in NodeIndexes :
      (Cardinality(SpousesInRow(i)) >= 2 /\ layoutRet.nodes[i].generation < DeepestRow) =>
        \A a \in SpousesInRow(i) \cup {i}, b \in SpousesInRow(i) \cup {i} :
          a # b => layoutRet.nodes[a].computedPosition # layoutRet.nodes[b].computedPosition

-----------------------------------------------------------------------------
(* The first thing computeLayout does on a non-empty list is to call       *)
(* calculateGenerations.  Here its loop is taken one iteration at a time:  *)
(* the queue is filled with the roots, worked off, and the function        *)
(* returns when the queue is empty.  What computeLayout does afterwards    *)
(* are iterations over the finite list only.                               *)

InitGenerations ==
  /\ \E n \in 1..MaxPeople :
       \E E \in SubsetsUpTo(Pool({"parent"}, n), MaxEdges) :
         people = LayoutPeople(n, E, [i \in 1..n |-> NullPosition])
  /\ call = NoCall
  /\ cycleRet = FALSE
  /\ relRet = NoRel
  /\ layoutRet = NoLayout
  /\ prevLayout = NoPrev
  /\ entryPeople = <<>>
  /\ ncalls = 0
  /\ pc = "idle"
  /\ queue = <<>>
  /\ generations = EmptyMap
  /\ EditorUnused
  /\ LinkUnused

EnterCalculateGenerations(autoAlign) ==
  /\ pc = "idle"
  /\ call' = [op |-> "computeLayout", a |-> 0, b |-> 0, flag |-> autoAlign]
  /\ entryPeople' = people
  /\ queue' = findRoots(people)
  /\ generations' = EmptyMap
  /\ pc' = "loop"
  /\ UNCHANGED <<people, cycleRet, relRet, layoutRet, prevLayout, ncalls, editorVars, linkVars>>

\* The loop compares generations only with one another (g < gen, g < gen + 1)
\* and the queue holds them in ascending order, so lowering every generation
\* by the same amount changes no branch of the loop.  Once the head of the
\* queue has passed MaxGen the model follows the loop in that window: it
\* lowers the generations so that the head is one below MaxGen; a value that
\* would fall below 0 is kept at 0, below every queued generation as before.
Window(q, g) ==
  IF q = <<>> \/ Head(q).gen <= MaxGen THEN [queue |-> q, generations |-> g]
  ELSE LET d == Head(q).gen - MaxGen + 1
       IN  [queue |-> [i \in 1..Len(q) |-> [id |-> q[i].id, gen |-> q[i].gen - d]],
            generations |-> [k \in DOMAIN g |-> IF g[k] < d THEN 0 ELSE g[k] - d]]

\* one iteration of "while (queue.length > 0)"
IterateGenerations ==
  /\ pc = "loop"
  /\ queue # <<>>
  /\ LET s == GenerationsStep(people, queue, generations)
         w == Window(s.queue, s.generations)
     IN  queue' = w.queue /\ generations' = w.generations
  /\ UNCHANGED <<people, call, cycleRet, relRet, layoutRet, prevLayout, entryPeople,
                 ncalls, pc, editorVars, linkVars>>

ReturnCalculateGenerations ==
  /\ pc = "loop"
  /\ queue = <<>>
  /\ generations' = GenerationsFill(people, generations)
  /\ pc' = "done"
  /\ UNCHANGED <<people, call, cycleRet, relRet, layoutRet, prevLayout, entryPeople,
                 ncalls, queue, editorVars, linkVars>>

NextGenerations ==
  \/ \E autoAlign \in BOOLEAN : EnterCalculateGenerations(autoAlign)
  \/ IterateGenerations
  \/ ReturnCalculateGenerations

SpecGenerations == InitGenerations /\ [][NextGenerations]_vars

\* the call, once entered, runs: the loop and the return are always taken
FairGenerations ==
  SpecGenerations /\ WF_vars(IterateGenerations) /\ WF_vars(ReturnCalculateGenerations)

\* C2: every call of computeLayout gets past its generations loop and
\* returns, also on lists whose parent relation has a cycle that can be
\* reached from a person without parents.  (Generations are numbers of the
\* mathematical integers here; as IEEE doubles they stop growing at 2^53,
\* some 9 * 10^15 iterations later.)
ComputeLayoutTerminates == (pc = "loop") ~> (pc = "done")

-----------------------------------------------------------------------------
(* The editor page (app/editor/page.tsx) and the person form               *)
(* (components/PersonForm.tsx).  Persons of the editor carry their         *)
(* marriages (the spouse id of each); a name is 0 when blank; 0 stands     *)
(* for "" and undefined among ids.  The dialog is modal: while it is open  *)
(* only the form can be used.                                              *)

MaxIds == 4
MaxMarriages == 1
MaxRefs == 3

createEmptyPerson(id) ==
  [id |-> id, gender |-> "", givenName |-> 0, parentIds |-> <<>>, childIds |-> <<>>,
   spouseIds |-> <<>>, position |-> NullPosition, marriages |-> <<>>]

Without(s, x) == SelectSeq(s, LAMBDA v : v # x)

\* newPeople.map(p => p.id === targetId && !p[field].includes(id) ? {...p, [field]: [...p[field], id]} : p)
AddRef(ps, targetId, field, id) ==
  [i \in 1..Len(ps) |->
     IF ps[i].id = targetId /\ ~Includes(ps[i][field], id)
     THEN [ps[i] EXCEPT ![field] = Append(@, id)]
     ELSE ps[i]]

\* targets.forEach(targetId => newPeople = newPeople.map(...))
RECURSIVE AddRefs(_, _, _, _)
AddRefs(ps, targets, field, id) ==
  IF targets = <<>> THEN ps
  ELSE AddRefs(AddRef(ps, Head(targets), field, id), Tail(targets), field, id)

handleUpdatePerson(prev, updatedPerson) ==
  LET replaced == [i \in 1..Len(prev) |->
                     IF prev[i].id = updatedPerson.id THEN updatedPerson ELSE prev[i]]
      spouses == AddRefs(replaced, updatedPerson.spouseIds, "spouseIds", updatedPerson.id)
      children == AddRefs(spouses, updatedPerson.childIds, "parentIds", updatedPerson.id)
  IN  AddRefs(children, updatedPerson.parentIds, "childIds", updatedPerson.id)

\* handleDeletePerson as it would be without the clean-up of marriages
handleDeletePersonKeepsMarriages(prev, personId) ==
  LET kept == SelectSeq(prev, LAMBDA p : p.id # personId)
  IN  [i \in 1..Len(kept) |->
         [kept[i] EXCEPT !.spouseIds = Without(@, personId),
                         !.parentIds = Without(@, personId),
                         !.childIds = Without(@, personId)]]

handleDeletePerson(prev, personId) ==
  LET kept == SelectSeq(prev, LAMBDA p : p.id # personId)
  IN  [i \in 1..Len(kept) |->
         [kept[i] EXCEPT !.spouseIds = Without(@, personId),
                         !.parentIds = Without(@, personId),
                         !.childIds = Without(@, personId),
                         !.marriages = Without(@, personId)]]

\* handleAddRelative as it would be if "parent" fell through to the branch of "child"
handleAddRelativeFallThrough(ps, type, relativeToId, spouseId, newId) ==
  LET newPerson == createEmptyPerson(newId)
  IN  CASE type = "parent" /\ relativeToId # 0 ->
             [newPerson EXCEPT !.childIds = <<relativeToId>>,
                               !.parentIds = <<relativeToId>>]
        [] type = "child" /\ relativeToId # 0 ->
             [newPerson EXCEPT !.parentIds = IF spouseId # 0
                                             THEN <<relativeToId, spouseId>>
                                             ELSE <<relativeToId>>]
        [] type = "spouse" /\ relativeToId # 0 ->
             [newPerson EXCEPT !.spouseIds = <<relativeToId>>]
        [] type = "sibling" /\ Has(ps, relativeToId) ->
             [newPerson EXCEPT !.parentIds = Get(ps, relativeToId).parentIds]
        [] OTHER -> newPerson

\* the person handleAddRelative opens the dialog with
handleAddRelative(ps, type, relativeToId, spouseId, newId) ==
  LET newPerson == createEmptyPerson(newId)
  IN  CASE type = "parent" /\ relativeToId # 0 ->
             [newPerson EXCEPT !.childIds = <<relativeToId>>]
        [] type = "child" /\ relativeToId # 0 ->
             [newPerson EXCEPT !.parentIds = IF spouseId # 0
                                             THEN <<relativeToId, spouseId>>
                                             ELSE <<relativeToId>>]
        [] type = "spouse" /\ relativeToId # 0 ->
             [newPerson EXCEPT !.spouseIds = <<relativeToId>>]
        [] type = "sibling" /\ Has(ps, relativeToId) ->
             [newPerson EXCEPT !.parentIds = Get(ps, relativeToId).parentIds]
        [] OTHER -> newPerson

handleDialogAdd(prev, person) ==
  LET added == Append(prev, person)
      parents == AddRefs(added, person.parentIds, "childIds", person.id)
      children == AddRefs(parents, person.childIds, "parentIds", person.id)
  IN  AddRefs(children, person.spouseIds, "spouseIds", person.id)

\* the effect of PersonForm that loads selectedPerson || initialPerson
LoadForm(personToLoad) ==
  [givenName |-> personToLoad.givenName,
   parent1Id |-> IF Len(personToLoad.parentIds) >= 1 THEN personToLoad.parentIds[1] ELSE 0,
   parent2Id |-> IF Len(personToLoad.parentIds) >= 2 THEN personToLoad.parentIds[2] ELSE 0,
   marriages |-> IF Len(personToLoad.marriages) > 0 THEN personToLoad.marriages
                 ELSE personToLoad.spouseIds]

\* handleSubmit: "Build parent IDs array"
SubmitParentIds(f) ==
  (IF f.parent1Id # 0 THEN <<f.parent1Id>> ELSE <<>>)
    \o (IF f.parent2Id # 0 /\ f.parent2Id # f.parent1Id THEN <<f.parent2Id>> ELSE <<>>)

\* handleSubmit: "Build spouse IDs array from marriages"
SubmitSpouseIds(f) == SelectSeq(f.marriages, LAMBDA m : m # 0)

\* the check as it would be if it looked at the first parent only
cycleFoundFirstParentOnly(ps, personId, parentIds) ==
  Len(parentIds) > 0 /\ wouldCreateCycle(ps, personId, parentIds[1])

\* handleSubmit: "Check for cycles"
cycleFound(ps, personId, parentIds) ==
  \E i \in 1..Len(parentIds) : wouldCreateCycle(ps, personId, parentIds[i])

\* handleSubmit: the person built from the form
SubmitPerson(f, loaded) ==
  [id |-> loaded.id, gender |-> "", givenName |-> f.givenName,
   parentIds |-> SubmitParentIds(f), childIds |-> loaded.childIds,
   spouseIds |-> SubmitSpouseIds(f), position |-> loaded.position,
   marriages |-> SubmitSpouseIds(f)]

-----------------------------------------------------------------------------
(* Specification of the editor: the page starts with an empty tree; the    *)
(* user opens the dialog from the canvas, fills the form, submits or       *)
(* closes it, and deletes persons from the list.                           *)

coreUnused == <<cycleRet, relRet, layoutRet, prevLayout, entryPeople, ncalls, pc, queue,
                generations, linkVars>>

EditorCall(op) == [op |-> op, a |-> 0, b |-> 0, flag |-> FALSE]

IsClosed == dialogMode.type = "none"

\* TreeCanvas: a person drawn in a couple unit is double-clicked with the
\* other person of the unit as spouseId, a person in no unit without one
DoubleClickSpouses(ps, id) ==
  LET partners == {q \in PersonIds(ps) :
                     \/ Includes(Get(ps, id).spouseIds, q)
                     \/ Includes(Get(ps, q).spouseIds, id)}
  IN  IF partners = {} THEN {0} ELSE partners

InitEditor ==
  /\ people = <<>>
  /\ call = NoCall
  /\ cycleRet = FALSE
  /\ relRet = NoRel
  /\ layoutRet = NoLayout
  /\ prevLayout = NoPrev
  /\ entryPeople = <<>>
  /\ ncalls = 0
  /\ pc = "idle"
  /\ queue = <<>>
  /\ generations = EmptyMap
  /\ dialogMode = NoDialog
  /\ dialogPerson = NoPerson
  /\ form = NoForm
  /\ nextId = 1
  /\ LinkUnused

\* the starter node of the empty canvas: handleDoubleClickNode(createEmptyPerson(''))
OpenNew ==
  /\ IsClosed
  /\ people = <<>>
  /\ nextId <= MaxIds
  /\ dialogPerson' = createEmptyPerson(nextId)
  /\ dialogMode' = [type |-> "new", spouseId |-> 0]
  /\ form' = LoadForm(createEmptyPerson(nextId))
  /\ call' = EditorCall("handleDoubleClickNode")
  /\ UNCHANGED <<people, nextId, coreUnused>>

\* handleDoubleClickNode(person, spouseId) on a node of the canvas
DoubleClickNode(i, spouseId) ==
  /\ IsClosed
  /\ spouseId \in DoubleClickSpouses(people, people[i].id)
  /\ dialogPerson' = people[i]
  /\ dialogMode' = [type |-> "edit", spouseId |-> spouseId]
  /\ form' = LoadForm(people[i])
  /\ call' = EditorCall("handleDoubleClickNode")
  /\ UNCHANGED <<people, nextId, coreUnused>>

\* the delete button of PersonList
\* some other person mentions id in one of its four reference lists
Mentioned(ps, id) ==
  \E k \in 1..Len(ps) :
    /\ ps[k].id # id
    /\ id \in Range(ps[k].parentIds) \cup Range(ps[k].childIds)
                \cup Range(ps[k].spouseIds) \cup Range(ps[k].marriages)

DeletePerson(i) ==
  /\ IsClosed
  /\ people' = handleDeletePerson(people, people[i].id)
  /\ call' = [op |-> "handleDeletePerson", a |-> people[i].id, b |-> 0,
              flag |-> Mentioned(people, people[i].id)]
  /\ UNCHANGED <<editorVars, coreUnused>>

\* the options of the spouse select of marriage number index
SpouseOptions(ps, f, loaded, index) ==
  {0}
    \cup {id \in {f.marriages[index]} : id # 0 /\ Has(ps, id)}
    \cup {id \in PersonIds(ps) :
            /\ id # loaded.id
            /\ \A k \in 1..Len(f.marriages) : k # index => f.marriages[k] # id}

\* the forms one edit away from f: the name typed or cleared, "Add
\* Marriage", the remove button of a marriage, the spouse select of a marriage
FormEdits(ps, f, loaded) ==
  {[f EXCEPT !.givenName = v] : v \in {0, 1}}
    \cup (IF Len(f.marriages) < MaxMarriages
          THEN {[f EXCEPT !.marriages = Append(@, 0)]} ELSE {})
    \cup {[f EXCEPT !.marriages =
             [k \in 1..(Len(@) - 1) |-> IF k < index THEN @[k] ELSE @[k + 1]]] :
            index \in 1..Len(f.marriages)}
    \cup UNION {{[f EXCEPT !.marriages[index] = val] :
                   val \in SpouseOptions(ps, f, loaded, index)} :
                  index \in 1..Len(f.marriages)}

\* the forms the user can bring the dialog to before pressing submit
RECURSIVE FormClosure(_, _, _)
FormClosure(ps, loaded, S) ==
  LET step == S \cup UNION {FormEdits(ps, f, loaded) : f \in S}
  IN  IF step = S THEN S ELSE FormClosure(ps, loaded, step)

FormInputs == FormClosure(people, dialogPerson, {form})

\* the "Add Parent/Child/Spouse/Sibling" buttons of the form of an existing person
AddRelative(type) ==
  /\ dialogMode.type = "edit"
  /\ nextId <= MaxIds
  /\ LET spouseId == IF type = "child" THEN dialogMode.spouseId ELSE 0
         newPerson == handleAddRelative(people, type, dialogPerson.id, spouseId, nextId)
     IN  /\ dialogPerson' = newPerson
         /\ dialogMode' = [type |-> "add", spouseId |-> spouseId]
         /\ form' = LoadForm(newPerson)
  /\ call' = EditorCall("handleAddRelative")
  /\ UNCHANGED <<people, nextId, coreUnused>>

\* handleCancelEdit, or the dialog closed from outside
CloseDialog ==
  /\ ~IsClosed
  /\ dialogMode' = NoDialog
  /\ dialogPerson' = NoPerson
  /\ form' = NoForm
  /\ call' = EditorCall("handleCancelEdit")
  /\ UNCHANGED <<people, nextId, coreUnused>>

\* number of parentIds and spouseIds entries of the tree
RECURSIVE Refs(_)
Refs(ps) ==
  IF ps = <<>> THEN 0
  ELSE Len(Head(ps).parentIds) + Len(Head(ps).spouseIds) + Refs(Tail(ps))

\* The user edits the loaded fields to f and presses submit: handleSubmit of
\* the form, with the page's callback it invokes: handleDialogUpdate for an
\* existing person (the dialog stays open), handleDialogAdd for a new one
\* (the dialog closes).  The edited fields are not kept in the state: the
\* edits can be undone, so the same forms can be submitted next time.  The
\* model follows trees of up to MaxRefs parentIds and spouseIds entries.
SubmitForm(f) ==
  /\ ~IsClosed
  /\ LET parentIds == SubmitParentIds(f)
         personId == dialogPerson.id
         person == SubmitPerson(f, dialogPerson)
         rejected == f.givenName = 0 \/ cycleFound(people, personId, parentIds)
     IN  /\ call' = [op |-> "handleSubmit", a |-> personId, b |-> f.givenName,
                     flag |-> ~rejected]
         /\ IF rejected
            THEN UNCHANGED <<people, editorVars>>
            ELSE IF dialogMode.type = "edit"
            THEN /\ people' = handleUpdatePerson(people, person)
                 /\ UNCHANGED editorVars
            ELSE /\ people' = handleDialogAdd(people, person)
                 /\ dialogMode' = NoDialog
                 /\ dialogPerson' = NoPerson
                 /\ form' = NoForm
                 /\ nextId' = nextId + 1
  /\ Refs(people') <= MaxRefs
  /\ UNCHANGED coreUnused

NextEditor ==
  \/ OpenNew
  \/ \E i \in 1..Len(people) : \E spouseId \in 0..MaxIds : DoubleClickNode(i, spouseId)
  \/ \E i \in 1..Len(people) : DeletePerson(i)
  \/ \E type \in {"parent", "child", "spouse", "sibling"} : AddRelative(type)
  \/ CloseDialog
  \/ \E f \in FormInputs : SubmitForm(f)

SpecEditor == InitEditor /\ [][NextEditor]_vars

-----------------------------------------------------------------------------
(* Specification of the editor after an import: handleImport has set the   *)
(* tree to the people of a JSON file, which validateFamilyTreeJson checks  *)
(* for the shape of its fields only.  The files are of the format without  *)
(* childIds and marriages, which the migration sets to [].                 *)

\* validateFamilyTreeJson: the migrated persons of a file with n persons and
\* the references E
ImportedPeople(n, E) ==
  [i \in 1..n |->
     [createEmptyPerson(i) EXCEPT !.givenName = 1,
                                  !.parentIds = Literal(E, "parent", i),
                                  !.spouseIds = Literal(E, "spouse", i)]]

InitImported ==
  /\ \E n \in 0..MaxPeople :
       \E E \in SubsetsUpTo(Pool({"parent", "spouse"}, n), MaxRelEdges) :
         people = ImportedPeople(n, E)
  /\ call = NoCall
  /\ cycleRet = FALSE
  /\ relRet = NoRel
  /\ layoutRet = NoLayout
  /\ prevLayout = NoPrev
  /\ entryPeople = <<>>
  /\ ncalls = 0
  /\ pc = "idle"
  /\ queue = <<>>
  /\ generations = EmptyMap
  /\ dialogMode = NoDialog
  /\ dialogPerson = NoPerson
  /\ form = NoForm
  /\ nextId = MaxPeople + 1
  /\ LinkUnused

SpecImported == InitImported /\ [][NextEditor]_vars

\* C13: a submission of the form for which wouldCreateCycle is true for one
\* of the submitted parents invokes neither callback: the people list after
\* the submission is the list before it.
RejectedEditLeavesTree ==
  [][(/\ ~IsClosed
      /\ call'.op = "handleSubmit"
      /\ \E parentId \in Range(SubmitParentIds(form)) :
           wouldCreateCycle(people, dialogPerson.id, parentId))
       => (people' = people /\ call'.flag = FALSE)]_vars

\* a form with a name was submitted, the guard found a cycle, and the
\* submission was refused
RejectedEditLeavesTreeWitness ==
  /\ ~IsClosed
  /\ call.op = "handleSubmit"
  /\ call.b = 1
  /\ call.flag = FALSE
  /\ Len(SubmitParentIds(form)) = 2
  /\ ~wouldCreateCycle(people, dialogPerson.id, form.parent1Id)
  /\ wouldCreateCycle(people, dialogPerson.id, form.parent2Id)

\* spouseIds is symmetric among the persons of the list
SpouseSymmetric(ps) ==
  \A i \in 1..Len(ps), j \in 1..Len(ps) :
    Includes(ps[i].spouseIds, ps[j].id) <=> Includes(ps[j].spouseIds, ps[i].id)

\* parentIds and childIds are inverse of each other among the persons of the list
ParentChildSymmetric(ps) ==
  \A i \in 1..Len(ps), j \in 1..Len(ps) :
    Includes(ps[i].childIds, ps[j].id) <=> Includes(ps[j].parentIds, ps[i].id)

\* C18: after any sequence of editor operations from the empty tree,
\* B is in A.spouseIds exactly when A is in B.spouseIds.
EditorSpouseSymmetry == SpouseSymmetric(people)

\* C19: after any sequence of editor operations from the empty tree,
\* C is in P.childIds exactly when P is in C.parentIds.
EditorParentChildSymmetry == ParentChildSymmetric(people)

\* C20: after any sequence of editor operations from the empty tree, no
\* person is its own ancestor.
EditorAcyclic == Acyclic(people)

\* "add parent" was committed for a person who has a child: the new person
\* stands two generations above that child
EditorAcyclicWitness ==
  /\ call.op = "handleSubmit" /\ call.flag /\ IsClosed
  /\ Len(people) >= 3
  /\ LET added == people[Len(people)]
     IN  /\ added.parentIds = <<>>
         /\ \E c \in Range(added.childIds) :
              /\ Has(people, c)
              /\ Includes(Get(people, c).parentIds, added.id)
              /\ \E g \in Range(Get(people, c).childIds) :
                   added.id \in AncestorsOf(people, g)
  /\ Acyclic(people)

\* the persons of ps other than id, in list order
Others(ps, id) == SelectSeq(ps, LAMBDA p : p.id # id)

\* C21: after handleDeletePerson(id) the list has no person with that id and
\* no person mentions id in parentIds, childIds, spouseIds or marriages; every
\* other person is kept, in the same order, with its other references and
\* its other fields unchanged.
CascadingDelete ==
  [][\A i \in 1..Len(people) :
       DeletePerson(i) =>
         LET id == people[i].id
             kept == Others(people, id)
         IN  /\ id \notin PersonIds(people')
             /\ ~Mentioned(people', id)
             /\ Len(people') = Len(kept)
             /\ \A k \in 1..Len(kept) :
                  /\ people'[k].id = kept[k].id
                  /\ people'[k].givenName = kept[k].givenName
                  /\ people'[k].gender = kept[k].gender
                  /\ people'[k].position = kept[k].position
                  /\ people'[k].parentIds = Without(kept[k].parentIds, id)
                  /\ people'[k].childIds = Without(kept[k].childIds, id)
                  /\ people'[k].spouseIds = Without(kept[k].spouseIds, id)
                  /\ people'[k].marriages = Without(kept[k].marriages, id)]_vars

\* a person that another person mentioned has been deleted, and persons remain
CascadingDeleteWitness ==
  /\ call.op = "handleDeletePerson"
  /\ call.flag
  /\ Len(people) > 0
  /\ call.a \notin PersonIds(people)

-----------------------------------------------------------------------------
(* The relationship finder (FindLinkView): buildLayout assigns generations *)
(* by passes over the list until a pass changes nothing, at most           *)
(* MAX_PASSES times.                                                       *)

MAX_PASSES == 100

\* one spouseId of person in the forEach over person.spouseIds
SpouseStep(ps, person, spouseId, st) ==
  LET g == st.generations
      hasMy == person.id \in DOMAIN g
      hasSpouse == spouseId \in DOMAIN g
  IN  IF ~Has(ps, spouseId) THEN st
      ELSE IF hasMy /\ (~hasSpouse \/ g[spouseId] < g[person.id])
      THEN [generations |-> MapSet(g, spouseId, g[person.id]), changed |-> TRUE]
      ELSE IF hasSpouse /\ (~hasMy \/ g[person.id] < g[spouseId])
      THEN [generations |-> MapSet(g, person.id, g[spouseId]), changed |-> TRUE]
      ELSE st

RECURSIVE SpouseSteps(_, _, _, _)
SpouseSteps(ps, person, spouseIds, st) ==
  IF spouseIds = <<>> THEN st
  ELSE SpouseSteps(ps, person, Tail(spouseIds), SpouseStep(ps, person, Head(spouseIds), st))

\* the body of people.forEach for one person: parent rule, then spouse rule
PersonStep(ps, person, st) ==
  LET g == st.generations
      parentGens == {g[pid] : pid \in {q \in Range(person.parentIds) : Has(ps, q) /\ q \in DOMAIN g}}
      expectedGen == MaxOf(parentGens) + 1
      raised == IF parentGens # {} /\ (person.id \notin DOMAIN g \/ g[person.id] < expectedGen)
                THEN [generations |-> MapSet(g, person.id, expectedGen), changed |-> TRUE]
                ELSE st
  IN  SpouseSteps(ps, person, person.spouseIds, raised)

\* one pass of the while loop over the persons from index i on
RECURSIVE GenerationPass(_, _, _)
GenerationPass(ps, i, st) ==
  IF i > Len(ps) THEN st ELSE GenerationPass(ps, i + 1, PersonStep(ps, ps[i], st))

\* while (changed && iterations < 100)
RECURSIVE GenerationPasses(_, _, _, _)
GenerationPasses(ps, g, changed, iterations) ==
  IF changed /\ iterations < MAX_PASSES
  THEN LET st == GenerationPass(ps, 1, [generations |-> g, changed |-> FALSE])
       IN  GenerationPasses(ps, st.generations, st.changed, iterations + 1)
  ELSE [generations |-> g, changed |-> changed, iterations |-> iterations]

\* the generation assignment of buildLayout: roots at 0, the passes, then 0
\* for every person still without a generation
buildLayout(ps) ==
  LET roots == {ps[i].id : i \in {k \in 1..Len(ps) :
                                   ~\E pid \in Range(ps[k].parentIds) : Has(ps, pid)}}
      looped == GenerationPasses(ps, [id \in roots |-> 0], TRUE, 0)
  IN  [looped EXCEPT !.generations =
         [id \in PersonIds(ps) |-> IF id \in DOMAIN @ THEN @[id] ELSE 0]]

-----------------------------------------------------------------------------
(* Specification of the relationship finder: the view is mounted with any  *)
(* list of persons, draws the chart, and then the user clicks nodes and    *)
(* resets the selection.                                                   *)

InitLink ==
  /\ \E n \in 0..MaxPeople :
       \E E \in SubsetsUpTo(Pool({"parent", "spouse"}, n), MaxEdges) :
         people = LayoutPeople(n, E, [i \in 1..n |-> NullPosition])
  /\ call = NoCall
  /\ cycleRet = FALSE
  /\ relRet = NoRel
  /\ layoutRet = NoLayout
  /\ prevLayout = NoPrev
  /\ entryPeople = <<>>
  /\ ncalls = 0
  /\ pc = "idle"
  /\ queue = <<>>
  /\ generations = EmptyMap
  /\ EditorUnused
  /\ LinkUnused

linkUnused == <<people, cycleRet, relRet, layoutRet, prevLayout, entryPeople, ncalls, pc,
                queue, generations, editorVars>>

\* the effect that draws the chart after mounting
RenderChart ==
  /\ chart = NoChart
  /\ Len(people) > 0
  /\ chart' = buildLayout(people)
  /\ call' = [op |-> "buildLayout", a |-> 0, b |-> 0, flag |-> FALSE]
  /\ UNCHANGED <<selectedPerson1, selectedPerson2, relationship, linkUnused>>

\* the second branch as it would be without the comparison of the ids
IsSecondPickAnyId(person) == selectedPerson2 = 0

\* !selectedPerson2 && person.id !== selectedPerson1.id
IsSecondPick(person) == selectedPerson2 = 0 /\ person.id # selectedPerson1

\* a click on the node of people[i]
handleNodeClick(i) ==
  /\ chart # NoChart
  /\ LET person == people[i]
     IN  IF selectedPerson1 = 0
         THEN /\ selectedPerson1' = person.id
              /\ selectedPerson2' = 0
              /\ relationship' = NullRelationship
              /\ call' = [op |-> "handleNodeClick", a |-> person.id, b |-> 0, flag |-> FALSE]
         ELSE IF IsSecondPick(person)
         THEN /\ selectedPerson2' = person.id
              /\ relationship' = findRelationship(people, Get(people, selectedPerson1), person)
              /\ call' = [op |-> "findRelationship", a |-> selectedPerson1, b |-> person.id,
                          flag |-> FALSE]
              /\ UNCHANGED selectedPerson1
         ELSE /\ selectedPerson1' = person.id
              /\ selectedPerson2' = 0
              /\ relationship' = NullRelationship
              /\ call' = [op |-> "handleNodeClick", a |-> person.id, b |-> 0, flag |-> TRUE]
  /\ UNCHANGED <<chart, linkUnused>>

\* the Reset button, shown while a person is selected
resetSelection ==
  /\ selectedPerson1 # 0 \/ selectedPerson2 # 0
  /\ selectedPerson1' = 0
  /\ selectedPerson2' = 0
  /\ relationship' = NullRelationship
  /\ call' = [op |-> "resetSelection", a |-> 0, b |-> 0, flag |-> FALSE]
  /\ UNCHANGED <<chart, linkUnused>>

NextLink ==
  \/ RenderChart
  \/ \E i \in 1..Len(people) : handleNodeClick(i)
  \/ resetSelection

SpecLink == InitLink /\ [][NextLink]_vars

IsChartDrawn == chart # NoChart

\* both rules of the generation assignment hold of the map g on the list ps
GenerationRules(ps, g) ==
  \A i \in 1..Len(ps) :
    /\ \A pid \in Range(ps[i].parentIds) : Has(ps, pid) => g[ps[i].id] > g[pid]
    /\ \A sid \in Range(ps[i].spouseIds) : Has(ps, sid) => g[ps[i].id] = g[sid]

\* C22: on a list whose parentIds relation is acyclic the generation loop of
\* buildLayout ends because a pass changed nothing, and in the resulting map
\* every person is strictly below each of its present parents and has the
\* generation of each of its present spouses.
FixpointConverges ==
  (IsChartDrawn /\ Acyclic(people)) =>
    /\ ~chart.changed
    /\ GenerationRules(people, chart.generations)

\* the lists with the persons of ps in any order
Reorderings(ps) == {[i \in 1..Len(ps) |-> ps[f[i]]] : f \in Permutations(1..Len(ps))}

\* C28: on a list with an acyclic parentIds relation, every reordering of the
\* list gets the same generation for every id, from the loop of buildLayout
\* and from calculateGenerations of computeLayout.
GenerationOrderIndependent ==
  (IsChartDrawn /\ Acyclic(people)) =>
    \A qs \in Reorderings(people) :
      /\ buildLayout(qs).generations = chart.generations
      /\ calculateGenerations(qs).generations = calculateGenerations(people).generations

\* C30: in FindLinkView the relationship result is non-null exactly when a
\* second person is selected; a second person is selected only when a first
\* one with another id is selected; findRelationship is never called with the
\* same person twice; and a click while both are selected makes the clicked
\* person the first person, with no second person and no result.
SelectionState ==
  /\ [](/\ relationship # NullRelationship <=> selectedPerson2 # 0
        /\ selectedPerson2 # 0 => (selectedPerson1 # 0 /\ selectedPerson1 # selectedPerson2)
        /\ call.op = "findRelationship" => call.a # call.b)
  /\ [][\A i \in 1..Len(people) :
          (selectedPerson1 # 0 /\ selectedPerson2 # 0 /\ handleNodeClick(i)) =>
            /\ selectedPerson1' = people[i].id
            /\ selectedPerson2' = 0
            /\ relationship' = NullRelationship]_vars

\* two persons are selected and their relationship is shown
SelectionStateWitness ==
  /\ call.op = "findRelationship"
  /\ selectedPerson1 # 0
  /\ selectedPerson2 # 0
  /\ relationship = findRelationship(people, Get(people, selectedPerson1),
                                     Get(people, selectedPerson2))
  /\ relationship.path # <<>>

\* a call of findRelationship on two different persons that found a path
IsPathFound == IsRelCall /\ call.a # call.b /\ relRet.path # <<>>

DirectLabels ==
  {"Husband", "Wife", "Spouse", "Father", "Mother", "Parent", "Son", "Daughter", "Child",
   "Brother", "Sister", "Sibling"}

\* the direct relationship of b to a, by the order spouse, parent, child,
\* sibling; "" when b is none of these to a
DirectLabel(a, b) ==
  IF b.id \in Range(a.spouseIds) THEN ByGender(b.gender, "Husband", "Wife", "Spouse")
  ELSE IF b.id \in Range(a.parentIds) THEN ByGender(b.gender, "Father", "Mother", "Parent")
  ELSE IF b.id \in Range(a.childIds) THEN ByGender(b.gender, "Son", "Daughter", "Child")
  ELSE IF Range(a.parentIds) \cap Range(b.parentIds) # {}
  THEN ByGender(b.gender, "Brother", "Sister", "Sibling")
  ELSE ""

\* C24: when a path from A to B exists, findRelationship returns the spouse
\* label if B is in A.spouseIds, else the parent label if B is in
\* A.parentIds, else the child label if B is in A.childIds, else the sibling
\* label if the two share a parent id, in the variant of B's gender; a label
\* of a later rule is returned only when none of the four matches.
ClassificationPrecedence ==
  IsPathFound =>
    LET direct == DirectLabel(Get(people, call.a), Get(people, call.b))
    IN  IF direct # "" THEN relRet.english = direct
        ELSE relRet.english \notin DirectLabels

\* B is A's spouse and A's parent at once, and the spouse label is returned
ClassificationPrecedenceWitness ==
  /\ IsPathFound
  /\ call.b \in Range(Get(people, call.a).spouseIds)
  /\ call.b \in Range(Get(people, call.a).parentIds)
  /\ Get(people, call.b).gender = "female"
  /\ relRet.english = "Wife"

\* p2 and p3 list the present person p1 as parent, p1 lists no children, and
\* there are no other references among the three
BrokenSymmetry(ps, p1, p2, p3) ==
  /\ Has(ps, p1) /\ p1 # p2 /\ p1 # p3 /\ p2 # p3
  /\ Get(ps, p2).parentIds = <<p1>> /\ Get(ps, p3).parentIds = <<p1>>
  /\ Get(ps, p1).childIds = <<>> /\ Get(ps, p1).parentIds = <<>>
  /\ \A p \in {p1, p2, p3} : Get(ps, p).spouseIds = <<>>
  /\ Get(ps, p2).childIds = <<>> /\ Get(ps, p3).childIds = <<>>

\* C26: for two persons P2 and P3 that both list a present person P1 in
\* parentIds while P1.childIds is empty, findRelationship(people, P2, P3)
\* returns a sibling label, not "No direct relationship found".
SiblingWithoutChildIds ==
  (IsRelCall /\ \E p1 \in PersonIds(people) : BrokenSymmetry(people, p1, call.a, call.b)) =>
    relRet.english \in {"Brother", "Sister", "Sibling"}

-----------------------------------------------------------------------------
(* findPath once more, returning with its result the depth of the deepest  *)
(* call it made, itself included.                                          *)

RECURSIVE findPathDepth(_, _, _, _, _)
RECURSIVE findPathDepthFirst(_, _, _, _, _)
\* the search as it would be if the outermost call did not add its person
\* to the visited set
findPathDepthForgetsStart(ps, fromId, toId, visited, path) ==
  IF fromId = toId THEN [result |-> Append(path, fromId), depth |-> 1]
  ELSE IF fromId \in visited THEN [result |-> NullPath, depth |-> 1]
  ELSE IF ~Has(ps, fromId) THEN [result |-> NullPath, depth |-> 1]
  ELSE LET current == Get(ps, fromId)
           r == findPathDepthFirst(ps, current.parentIds \o current.childIds \o current.spouseIds,
                                   toId, IF path = <<>> THEN visited ELSE visited \cup {fromId},
                                   Append(path, fromId))
       IN  [result |-> r.result, depth |-> r.depth + 1]

findPathDepth(ps, fromId, toId, visited, path) ==
  IF fromId = toId THEN [result |-> Append(path, fromId), depth |-> 1]
  ELSE IF fromId \in visited THEN [result |-> NullPath, depth |-> 1]
  ELSE IF ~Has(ps, fromId) THEN [result |-> NullPath, depth |-> 1]
  ELSE LET current == Get(ps, fromId)
           r == findPathDepthFirst(ps, current.parentIds \o current.childIds \o current.spouseIds,
                                   toId, visited \cup {fromId}, Append(path, fromId))
       IN  [result |-> r.result, depth |-> r.depth + 1]

\* the three for-loops: the calls made up to the first non-null result
findPathDepthFirst(ps, nextIds, toId, visited, currentPath) ==
  IF nextIds = <<>> THEN [result |-> NullPath, depth |-> 0]
  ELSE LET r == findPathDepth(ps, Head(nextIds), toId, visited, currentPath)
       IN  IF r.result # NullPath THEN r
           ELSE LET rest == findPathDepthFirst(ps, Tail(nextIds), toId, visited, currentPath)
                IN  [result |-> rest.result,
                     depth |-> IF r.depth >= rest.depth THEN r.depth ELSE rest.depth]

\* the search that the last call of findRelationship made
LastSearch == findPathDepth(people, call.a, call.b, {}, <<>>)

\* C29: findRelationship returns on every list and every pair of persons,
\* with parent cycles, self-references, asymmetric references and ids of no
\* person; the calls of findPath are never nested deeper than the number of
\* persons plus one.
FindRelationshipTerminates ==
  IsRelCall =>
    /\ relRet.english # ""
    /\ call.a # call.b =>
         /\ LastSearch.result = relRet.path
         /\ LastSearch.depth <= Len(people) + 1

\* a search that goes round a parent cycle of a list of three persons, comes
\* back to a person already visited and finds no path
FindRelationshipTerminatesWitness ==
  /\ IsRelCall
  /\ call.a # call.b
  /\ ~Acyclic(people)
  /\ Len(people) = 3
  /\ LastSearch.depth = 3
  /\ relRet = NoRelationship

-----------------------------------------------------------------------------
(* Specification of the path search: lists of persons with up to           *)
(* MaxPathEdges one-sided references of any kind, so that two persons can  *)
(* be joined by several paths, then calls of findRelationship.             *)

MaxPathEdges == 3

InitPaths ==
  /\ \E n \in 1..MaxPeople :
       \E E \in SubsetsUpTo(Pool({"parent", "child", "spouse"}, n), MaxPathEdges) :
         people = RelPeople(n, E, FALSE, 0)
  /\ call = NoCall
  /\ cycleRet = FALSE
  /\ relRet = NoRel
  /\ layoutRet = NoLayout
  /\ prevLayout = NoPrev
  /\ entryPeople = <<>>
  /\ ncalls = 0
  /\ pc = "idle"
  /\ queue = <<>>
  /\ generations = EmptyMap
  /\ EditorUnused
  /\ LinkUnused

SpecPaths == InitPaths /\ [][NextRel]_vars

\* the ids a person refers to, in the order in which findPath tries them
Neighbours(person) == person.parentIds \o person.childIds \o person.spouseIds

\* the paths from a to b over the references that visit no person twice
SimplePaths(ps, a, b) ==
  UNION {{s \in [1..k -> PersonIds(ps)] :
            /\ s[1] = a /\ s[k] = b
            /\ \A i \in 1..k, j \in 1..k : s[i] = s[j] => i = j
            /\ \A i \in 1..(k - 1) : Includes(Neighbours(Get(ps, s[i])), s[i + 1])}
         : k \in 2..Len(ps)}

\* the position at which u tries v
Rank(ps, u, v) ==
  LET nb == Neighbours(Get(ps, u))
  IN  CHOOSE i \in 1..Len(nb) : nb[i] = v /\ \A j \in 1..(i - 1) : nb[j] # v

\* where the paths p and q part, p takes the reference that is tried first
Precedes(ps, p, q) ==
  LET k == CHOOSE i \in 2..Len(p) : p[i] # q[i] /\ \A j \in 1..(i - 1) : p[j] = q[j]
  IN  Rank(ps, p[k - 1], p[k]) < Rank(ps, q[k - 1], q[k])

\* C23: the path returned by findRelationship for two different persons goes
\* from person1 to person2 over parentIds, childIds and spouseIds references
\* without visiting a person twice, and it is the first such path in the
\* order that tries parentIds, then childIds, then spouseIds at each person;
\* a path is found whenever such a path exists.
FirstSimplePath ==
  (IsRelCall /\ call.a # call.b) =>
    LET paths == SimplePaths(people, call.a, call.b)
    IN  IF paths = {} THEN relRet.path = <<>>
        ELSE /\ relRet.path \in paths
             /\ \A q \in paths \ {relRet.path} : Precedes(people, relRet.path, q)

\* person1 refers to person2, and yet the path returned is the one through
\* the third person, which is tried first
FirstSimplePathWitness ==
  /\ IsRelCall
  /\ call.a # call.b
  /\ Cardinality(SimplePaths(people, call.a, call.b)) = 2
  /\ Includes(Neighbours(Get(people, call.a)), call.b)
  /\ Len(relRet.path) = 3

-----------------------------------------------------------------------------
(* Specification of the resolver on family trees: up to MaxKin persons,    *)
(* each after the first attached to an earlier one as its parent, child or *)
(* spouse, with the reference entered on both sides, as Add Relative of    *)
(* the editor builds a tree; then calls of findRelationship.               *)

MaxKin == 5

\* the ways of attaching person k to an earlier person
Attach(k) ==
  UNION {{<<"parent", j, k>>, <<"parent", k, j>>, <<"spouse", k, j>>} : j \in 1..(k - 1)}

RECURSIVE KinEdges(_)
KinEdges(n) ==
  IF n = 1 THEN {{}} ELSE {E \cup {t} : E \in KinEdges(n - 1), t \in Attach(n)}

InitKin ==
  /\ \E n \in 1..MaxKin :
       \E E \in KinEdges(n) :
         \E rot \in 0..3 :
           people = RelPeople(n, E, TRUE, rot)
  /\ call = NoCall
  /\ cycleRet = FALSE
  /\ relRet = NoRel
  /\ layoutRet = NoLayout
  /\ prevLayout = NoPrev
  /\ entryPeople = <<>>
  /\ ncalls = 0
  /\ pc = "idle"
  /\ queue = <<>>
  /\ generations = EmptyMap
  /\ EditorUnused
  /\ LinkUnused

\* one call of findRelationship on the tree
NextKin == call = NoCall /\ NextRel

SpecKin == InitKin /\ [][NextKin]_vars

\* no rule before the fallback matches
NoNamedRule(ps, person1, person2) ==
  \A label \in {spouseRule(person1, person2), parentRule(person1, person2),
                 childRule(person1, person2), siblingRule(person1, person2),
                 grandparentRule(ps, person1, person2), grandchildRule(ps, person1, person2),
                 greatGrandparentRule(ps, person1, person2),
                 greatGrandchildRule(ps, person1, person2),
                 uncleAuntRule(ps, person1, person2), nephewNieceRule(ps, person1, person2),
                 cousinRule(ps, person1, person2), parentInLawRule(ps, person1, person2),
                 childInLawRule(ps, person1, person2), spouseSiblingRule(ps, person1, person2),
                 siblingSpouseRule(ps, person1, person2), coSiblingRule(ps, person1, person2)} :
    label = ""

\* the hops of path from a person to one of the ids in its field
Hops(ps, path, field) ==
  {i \in 1..(Len(path) - 1) : path[i + 1] \in Range(Get(ps, path[i])[field])}

\* C25: when a path exists and no named rule matches, with d the number of
\* child hops minus the number of parent hops of the returned path, the
\* label is "Ancestor (|d| generations)" if d < -2, "Descendant (d
\* generations)" if d > 2, else "Relative by marriage" if the path has a
\* spouse hop, else "Relative"; four parent hops give "Ancestor (4
\* generations)".
GenerationFallback ==
  (IsPathFound /\ NoNamedRule(people, Get(people, call.a), Get(people, call.b))) =>
    LET d == Cardinality(Hops(people, relRet.path, "childIds"))
               - Cardinality(Hops(people, relRet.path, "parentIds"))
    IN  /\ relRet.english =
             IF d < -2 THEN "Ancestor (" \o ToString(-d) \o " generations)"
             ELSE IF d > 2 THEN "Descendant (" \o ToString(d) \o " generations)"
             ELSE IF Hops(people, relRet.path, "spouseIds") # {} THEN "Relative by marriage"
             ELSE "Relative"
        /\ (Len(relRet.path) = 5 /\ Cardinality(Hops(people, relRet.path, "parentIds")) = 4)
             => relRet.english = "Ancestor (4 generations)"

\* the great-great-grandparent, reached by four parent hops
GenerationFallbackWitness ==
  /\ IsPathFound
  /\ NoNamedRule(people, Get(people, call.a), Get(people, call.b))
  /\ Len(relRet.path) = 5
  /\ Hops(people, relRet.path, "parentIds") = 1..4
  /\ relRet.english = "Ancestor (4 generations)"

\* the x coordinates of the children, in the list, of the persons in S
ChildXs(S) ==
  {NodeX(c) : c \in {k \in NodeIndexes :
                       \E i \in S : Includes(entryPeople[k].parentIds, entryPeople[i].id)}}

\* the two partners i and j of C27: above the deepest row, in one
\* generation, one spouse each, and a child in the list between them
IsCentredCouple(i, j) ==
  /\ i # j
  /\ MutualSpouses(entryPeople, i, j)
  /\ SameRow(i, j)
  /\ layoutRet.nodes[i].generation < DeepestRow
  /\ Len(entryPeople[i].spouseIds) = 1 /\ Len(entryPeople[j].spouseIds) = 1
  /\ ChildXs({i, j}) # {}

\* couples and single parents are centred over their children
Centred ==
  /\ \A i \in NodeIndexes, j \in NodeIndexes :
       IsCentredCouple(i, j) =>
         /\ NodeY(i) = NodeY(j)
         /\ Distance(NodeX(i), NodeX(j)) = SPOUSE_SPACING
         /\ NodeX(i) + NodeX(j) = MinOf(ChildXs({i, j})) + MaxOf(ChildXs({i, j}))
  /\ \A i \in NodeIndexes :
       (entryPeople[i].spouseIds = <<>> /\ ChildXs({i}) # {}) =>
         2 * NodeX(i) = MinOf(ChildXs({i})) + MaxOf(ChildXs({i}))

====
